---- MODULE Spec2Model ----
(***************************************************************************)
(* Prompt Architect: batch planning (src/utils/random.ts,                  *)
(* src/utils/randomPicker.ts, PromptArchitect.tsx buildOne/onRun) and the  *)
(* concurrency-limited dispatch of the planned payloads to the chat API    *)
(* (PromptArchitect.tsx callLLM, hooks/useLocalStorage.ts useAPI /         *)
(* useOpenAI).                                                             *)
(*                                                                         *)
(* Text is a sequence of one-character strings, so that splitting,         *)
(* trimming and case folding are computed rather than assumed.  Indices    *)
(* that the code keeps 0-based (batchIndex, index, myIndex, attempt) are   *)
(* 0-based here; TLA+ sequences are 1-based, hence the "+ 1" on access.    *)
(*                                                                         *)
(* A behaviour is one session of the component, from its construction to   *)
(* the end of the first run that reaches the dispatch.                     *)
(***************************************************************************)
EXTENDS Integers, Sequences, FiniteSets, TLC

\* ------------------------------------------------------------------------
\* Bounds of the model
\* ------------------------------------------------------------------------
\* largest batch size the controls can hold
MaxBatch == 2
\* failing responses the API may give within one session
MaxFailures == 3
\* Math.random() is drawn from { k / RandomDen : k \in 0..RandomDen-1 }
RandomDen == 2
\* the length of the texts given to toList
MaxText == 4
\* the batch indices one pool is picked for
MaxPicks == 5
\* the batch indices a pool is picked for a second time under seed -1
MaxReplay == 2
\* the sections added with the Add Section button
MaxSections == 2

\* ------------------------------------------------------------------------
\* Program constants
\* ------------------------------------------------------------------------
\* callOpenAI: const { maxRetries = 3, baseDelay = 500 } = options
maxRetries == 3
baseDelay == 500
\* Math.floor(Math.random() * 200)
JitterWindow == 200
\* default of callLLM's maxParallel / onRun's `|| 4`
DefaultConcurrency == 4
\* Math.min(..., 10) in callLLM
MaxWorkers == 10
\* onRun guardrails
BatchAdvisory == 250
ConcurrencyAdvisory == 8

\* ------------------------------------------------------------------------
\* Strings
\* ------------------------------------------------------------------------
Range(q) == {q[i] : i \in DOMAIN q}
Max(a, b) == IF a >= b THEN a ELSE b
Min(a, b) == IF a <= b THEN a ELSE b

RECURSIVE Pow2(_)
Pow2(n) == IF n <= 0 THEN 1 ELSE 2 * Pow2(n - 1)

\* String.prototype.trim: strip leading and trailing white space
IsSpace(c) == c \in {" ", "\t", "\n"}
trim(s) ==
    IF \A i \in DOMAIN s : IsSpace(s[i]) THEN <<>>
    ELSE LET first == CHOOSE i \in DOMAIN s :
                         /\ ~IsSpace(s[i])
                         /\ \A j \in 1..(i - 1) : IsSpace(s[j])
             last  == CHOOSE i \in DOMAIN s :
                         /\ ~IsSpace(s[i])
                         /\ \A j \in (i + 1)..Len(s) : IsSpace(s[j])
         IN  SubSeq(s, first, last)

\* String.prototype.toLowerCase over the letters the model uses
lowerChar(c) ==
    CASE c = "A" -> "a"
      [] c = "B" -> "b"
      [] c = "C" -> "c"
      [] c = "D" -> "d"
      [] c = "E" -> "e"
      [] c = "L" -> "l"
      [] c = "P" -> "p"
      [] c = "S" -> "s"
      [] c = "T" -> "t"
      [] c = "W" -> "w"
      [] c = "X" -> "x"
      [] c = "Y" -> "y"
      [] OTHER   -> c
toLowerCase(s) == [i \in DOMAIN s |-> lowerChar(s[i])]

\* text.split(/[\n,]/g)
IsSeparator(c) == c \in {",", "\n"}
RECURSIVE split(_)
split(text) ==
    IF \A i \in DOMAIN text : ~IsSeparator(text[i]) THEN <<text>>
    ELSE LET k == CHOOSE i \in DOMAIN text :
                     /\ IsSeparator(text[i])
                     /\ \A j \in 1..(i - 1) : ~IsSeparator(text[j])
         IN  <<SubSeq(text, 1, k - 1)>> \o split(SubSeq(text, k + 1, Len(text)))

\* arr.filter(keep first occurrence of every lower-cased key), in order
RECURSIVE firstSeen(_, _)
firstSeen(arr, seen) ==
    IF arr = <<>> THEN <<>>
    ELSE LET k == toLowerCase(Head(arr))
         IN  IF k \in seen THEN firstSeen(Tail(arr), seen)
             ELSE <<Head(arr)>> \o firstSeen(Tail(arr), seen \cup {k})

\* arr.map(trim).filter(Boolean)
RECURSIVE trimAll(_)
trimAll(arr) ==
    IF arr = <<>> THEN <<>>
    ELSE LET t == trim(Head(arr))
         IN  IF t = <<>> THEN trimAll(Tail(arr))
             ELSE <<t>> \o trimAll(Tail(arr))

\* mutant of toList: tokens are not deduplicated
toList_keepsDuplicates(text) ==
    IF text = <<>> THEN <<>>
    ELSE trimAll(split(text))

\* toList(text)
toList(text) ==
    IF text = <<>> THEN <<>>
    ELSE firstSeen(trimAll(split(text)), {})

\* mutant of normalizeUniqueCaseInsensitive: no trimming, blanks kept
normalizeUniqueCaseInsensitive_untrimmed(arr) == firstSeen(arr, {})

\* normalizeUniqueCaseInsensitive(arr)
normalizeUniqueCaseInsensitive(arr) == firstSeen(trimAll(arr), {})

\* ------------------------------------------------------------------------
\* 32-bit words (random.ts, randomPicker.ts).  A word is <<hi, lo>>, its two
\* 16-bit halves, so that no intermediate value leaves the integers TLC has.
\* ------------------------------------------------------------------------
Half == 65536
Byte == 256

\* the word of a non-negative integer below 2^31, and of small integers
\* added to a word (x >>> 0 wraps modulo 2^32)
word(hi, lo) == <<hi % Half, lo % Half>>
addInt(w, n) ==
    LET lo == w[2] + n
    IN  word(w[1] + (lo \div Half), lo)
add32(a, b) ==
    LET lo == a[2] + b[2]
    IN  word(a[1] + b[1] + (lo \div Half), lo)

\* bitwise operations on 16-bit halves, bit by bit
RECURSIVE xor16(_, _, _)
xor16(x, y, n) ==
    IF n = 0 THEN 0
    ELSE ((x + y) % 2) + 2 * xor16(x \div 2, y \div 2, n - 1)
RECURSIVE or16(_, _, _)
or16(x, y, n) ==
    IF n = 0 THEN 0
    ELSE (IF (x % 2) + (y % 2) > 0 THEN 1 ELSE 0)
           + 2 * or16(x \div 2, y \div 2, n - 1)
xor32(a, b) == <<xor16(a[1], b[1], 16), xor16(a[2], b[2], 16)>>
or32(a, b) == <<or16(a[1], b[1], 16), or16(a[2], b[2], 16)>>

\* w >>> k for 0 < k < 16
shr32(w, k) ==
    LET p == Pow2(k)
    IN  <<w[1] \div p, (w[2] \div p) + (w[1] % p) * Pow2(16 - k)>>

\* the low and the high half of the product of two halves, by bytes
mulParts(x, y) ==
    LET x1 == x \div Byte   x0 == x % Byte
        y1 == y \div Byte   y0 == y % Byte
        mid == x1 * y0 + x0 * y1
        low == (mid % Byte) * Byte + x0 * y0
    IN  [lo |-> low % Half,
         hi |-> (x1 * y1 + (mid \div Byte) + (low \div Half)) % Half]

\* Math.imul(a, b), as the unsigned word of its 32 bits
imul(a, b) ==
    LET ll == mulParts(a[2], b[2])
    IN  word(ll.hi + mulParts(a[1], b[2]).lo + mulParts(a[2], b[1]).lo, ll.lo)

\* str.charCodeAt(i), for the characters section ids are made of
charCodeAt(c) ==
    CASE c = "s" -> 115
      [] c = "1" -> 49
      [] c = "2" -> 50
      [] c = "-" -> 45
      [] OTHER   -> 63

\* hash32(str): FNV-1a, h = 2166136261, h ^= code, h = imul(h, 16777619)
FnvOffsetHi == 33052
FnvOffsetLo == 40389
FnvPrimeHi == 256
FnvPrimeLo == 403
RECURSIVE hashFrom(_, _)
hashFrom(h, str) ==
    IF str = <<>> THEN h
    ELSE hashFrom(imul(xor32(h, <<0, charCodeAt(Head(str))>>),
                       <<FnvPrimeHi, FnvPrimeLo>>),
                  Tail(str))
hash32(str) == hashFrom(<<FnvOffsetHi, FnvOffsetLo>>, str)

\* mulberry32(seed)(): the first value the generator returns, as the word
\* (r ^ (r >>> 14)) >>> 0; t is the word of seed >>> 0
WeylHi == 27947
WeylLo == 31221
mulberry32(t0) ==
    LET t == add32(t0, <<WeylHi, WeylLo>>)
        r1 == imul(xor32(t, shr32(t, 15)), or32(<<0, 1>>, t))
        r2 == xor32(r1, add32(r1, imul(xor32(r1, shr32(r1, 7)),
                                       or32(<<0, 61>>, r1))))
    IN  xor32(r2, shr32(r2, 14))

\* mutant of scale: Math.round in place of Math.floor
scale_rounds(w, n) == (w[1] * n + (Half \div 2) + ((w[2] * n) \div Half)) \div Half

\* Math.floor((w / 4294967296) * n) for a word w and 0 < n < 2^15
scale(w, n) == (w[1] * n + ((w[2] * n) \div Half)) \div Half

\* mutant of usesMathRandom: -1 is a seed like any other
usesMathRandom_never(seedBase) == FALSE

\* mutant of usesMathRandom: `!seedBase || seedBase === -1`
usesMathRandom_falsy(seedBase) == seedBase = 0 \/ seedBase = -1

\* Number(seedBase) === -1
usesMathRandom(seedBase) == seedBase = -1

\* mutant of makeSectionRng: the batch index is doubled before it is added
makeSectionRng_weighted(seedBase, batchIndex, sectionId, rnd, n) ==
    IF usesMathRandom(seedBase)
    THEN (rnd * n) \div RandomDen
    ELSE scale(mulberry32(addInt(hash32(sectionId),
                                 seedBase + 2 * batchIndex)), n)

\* Math.floor(makeSectionRng(seedBase, batchIndex, sectionId)() * n): with
\* seedBase = -1 the value Math.random() returns, rnd / RandomDen; else the
\* first value of the generator of
\* s = (Number(seedBase) || 0) + batchIndex + hash32(sectionId)
makeSectionRng(seedBase, batchIndex, sectionId, rnd, n) ==
    IF usesMathRandom(seedBase)
    THEN (rnd * n) \div RandomDen
    ELSE scale(mulberry32(addInt(hash32(sectionId), seedBase + batchIndex)), n)

\* mutant of getCandidates: the selections are merged with the list
getCandidates_merges(pool) ==
    LET picked == IF "selections" \in DOMAIN pool THEN pool.selections ELSE <<>>
        listed == IF "listArray" \in DOMAIN pool
                  THEN pool.listArray
                  ELSE IF "listText" \in DOMAIN pool
                  THEN toList(pool.listText)
                  ELSE toList(<<>>)
    IN  normalizeUniqueCaseInsensitive(picked \o listed)

\* getCandidates(pool): the selections when there are any, else the
\* pre-tokenized array when the pool has one, else the tokenized text
\* (an optional field the pool lacks is not in its DOMAIN)
getCandidates(pool) ==
    LET base == IF "selections" \in DOMAIN pool /\ Len(pool.selections) > 0
                THEN pool.selections
                ELSE IF "listArray" \in DOMAIN pool
                THEN pool.listArray
                ELSE IF "listText" \in DOMAIN pool
                THEN toList(pool.listText)
                ELSE toList(<<>>)
    IN  normalizeUniqueCaseInsensitive(base)

\* the value of a JS expression that has none, kept among the strings
undefined == <<"undefined">>

\* arr[idx]: undefined outside the array
at(arr, idx) == IF idx + 1 \in DOMAIN arr THEN arr[idx + 1] ELSE undefined

\* mutant of pickOneValue: every pool is drawn from its generator
pickOneValue_alwaysDraws(pool, seedBase, batchIndex, sectionId, rnd) ==
    LET candidates == getCandidates(pool)
    IN  IF Len(candidates) = 0 THEN <<>>
        ELSE at(candidates, makeSectionRng(seedBase, batchIndex, sectionId,
                                           rnd, Len(candidates)))

\* pickOneValue(pool, seedBase, batchIndex, sectionId); rnd / RandomDen is
\* the value Math.random() returns if it is called
pickOneValue(pool, seedBase, batchIndex, sectionId, rnd) ==
    LET candidates == getCandidates(pool)
    IN  IF Len(candidates) = 0 THEN <<>>
        ELSE IF pool.isRandomized
        THEN at(candidates, makeSectionRng(seedBase, batchIndex, sectionId,
                                           rnd, Len(candidates)))
        ELSE at(candidates, batchIndex % Len(candidates))

\* mutant of setKey: a key the object has keeps its value
setKey_keepsFirst(payload, key, value) ==
    IF \E i \in DOMAIN payload : payload[i].k = key
    THEN payload
    ELSE Append(payload, [k |-> key, v |-> value])

\* payload[key] = value on a JS object: an existing key keeps its place
setKey(payload, key, value) ==
    IF \E i \in DOMAIN payload : payload[i].k = key
    THEN [i \in DOMAIN payload |->
             IF payload[i].k = key THEN [k |-> key, v |-> value] ELSE payload[i]]
    ELSE Append(payload, [k |-> key, v |-> value])

\* mutant of isTruthy: every string passes
isTruthy_always(str) == TRUE

\* if (str): a string is truthy unless it is empty
isTruthy(str) == str # <<>>

\* buildOne(batchIndex, seedBase): sections.forEach from section n on;
\* rnds[n] is the draw of section n.  The trimmed-title test comes first in
\* the code; a section it skips makes no pick
RECURSIVE buildFrom(_, _, _, _, _, _)
buildFrom(secs, n, batchIndex, seedBase, rnds, payload) ==
    IF n > Len(secs) THEN payload
    ELSE LET section == secs[n]
             pool == [label |-> section.title,
                      listText |-> section.list,
                      selections |-> section.selections,
                      isRandomized |-> section.isRandomized]
             val == pickOneValue(pool, seedBase, batchIndex, section.id,
                                 rnds[n])
             \* val?.trim()
             trimmedVal == IF val = undefined THEN <<>> ELSE trim(val)
         IN  IF ~isTruthy(trim(section.title))
             THEN buildFrom(secs, n + 1, batchIndex, seedBase, rnds, payload)
             ELSE IF isTruthy(trimmedVal)
             THEN buildFrom(secs, n + 1, batchIndex, seedBase, rnds,
                            setKey(payload, section.title, trimmedVal))
             ELSE buildFrom(secs, n + 1, batchIndex, seedBase, rnds, payload)
\* mutant of buildOne: the sections share one stream, each drawing at the
\* batch index moved on by the number of sections
buildOne_sharedStream(secs, batchIndex, seedBase, rnds) ==
    buildFrom(secs, 1, batchIndex + Len(secs) - 1, seedBase, rnds, <<>>)

buildOne(secs, batchIndex, seedBase, rnds) ==
    buildFrom(secs, 1, batchIndex, seedBase, rnds, <<>>)

\* JSON.stringify(payload): the entries in insertion order
RECURSIVE stringify(_)
stringify(payload) ==
    IF payload = <<>> THEN <<>>
    ELSE Head(payload).k \o <<":">> \o Head(payload).v \o <<";">>
         \o stringify(Tail(payload))

\* buildLLMMessages(payload): the system message carries the section titles
\* and the instructions, the user message the serialised payload
buildLLMMessages(secs, instr, payload) ==
    [system |-> [fieldNames |-> [n \in DOMAIN secs |-> secs[n].title],
                 instructions |-> IF instr = <<>>
                                  THEN <<"You rewrite a structured scene spec">>
                                  ELSE instr],
     user   |-> stringify(payload)]

\* ------------------------------------------------------------------------
\* Inputs
\* ------------------------------------------------------------------------
\* values typed into the Batch and Concurrency inputs, as updateControl
\* stores them: Number(e.target.value), 0 for a cleared input
BatchValues == (-1)..MaxBatch
ConcurrencyValues == {-1, 0, 50}
ApiKeys == {"", "sk-test"}
\* what localStorage holds under pa_prompts: the results of an earlier session
StoredPrompts == {<<>>, << <<"o", "l", "d">> >>}

\* preset files served under /src/presets (modern format)
PresetFiles ==
    [cycle |->
        [instructions |-> <<"i">>,
         defaults |-> [batch |-> 2, concurrency |-> 2],
         sections |-> <<
            [id |-> <<"s", "1">>, title |-> <<"T">>,
             list |-> <<"a", ",", " ", "b", ",", "\n", "A", ",", "c">>,
             selections |-> <<>>, isRandomized |-> FALSE] >>],
     mixed |->
        [instructions |-> <<>>,
         defaults |-> <<>>,
         sections |-> <<
            [id |-> <<"s", "1">>, title |-> <<"T">>,
             list |-> <<"x", ",", "y">>,
             selections |-> <<>>, isRandomized |-> TRUE],
            [id |-> <<"s", "2">>, title |-> <<"U">>,
             list |-> <<"a", ",", "b">>,
             selections |-> << <<"B">>, <<"z">> >>,
             isRandomized |-> FALSE] >>]]

\* values typed into the Seed input; -1 is "fully random"
SeedValues == {-1, 0, 42}

\* texts typed into the list box of a section
ListEdits == { <<"b">>, <<"a", ",", " ", "c">> }

\* how a fetch can settle: a response with an HTTP status, or the rejection
\* with an AbortError when the 30 s timer fires
Statuses == {200, 404, 429, 503}
Responses ==
    [kind : {"http"}, status : Statuses] \cup {[kind |-> "abort", status |-> 0]}
\* values of Math.floor(Math.random() * 200) the model draws
Jitters == {0, JitterWindow - 1}

\* the content the API returns for a request: it echoes the user message,
\* padded with white space
serverContent(messages) == <<" ">> \o <<"r", "e", ":">> \o messages.user \o <<"\n">>

\* ------------------------------------------------------------------------
\* State
\* ------------------------------------------------------------------------
VARIABLES
    apiKey,        \* useLocalStorage("pa_api_key")
    controls,      \* useBatchLocalStorage: seed, batch, concurrency
    instructions,  \* useState: the visible system prompt
    sections,      \* useState<SectionData[]>
    prompts,       \* useLocalStorage("pa_prompts"): the stored results
    busy,          \* useState(false)
    error,         \* useState("")
    warn,          \* useState("")
    lastPayloads,  \* useState<any[]>
    progress,      \* useState({ total, done, ok, fail })
    pc,            \* where onRun stands: "idle", "saving", "dispatching",
                   \* "returned"
    payloads,      \* onRun: const payloads
    queue,         \* callLLM: const queue
    results,       \* callLLM: const results
    index,         \* callLLM: let index
    workers,       \* callLLM: the N worker() calls, each at its await
    claimLog,      \* history: the values of myIndex, in claim order
    counted,       \* history: progress updates made for each job
    jobOutcome,    \* history: how each job's fetchWithRetry ended
    failuresLeft,  \* failing responses the API may still give
    poolIn,        \* randomPicker: the CandidatePool being resolved
    seedIn,        \* randomPicker: the seed the picks are made with
    resolved,      \* randomPicker: what getCandidates(pool) returned
    picks,         \* randomPicker: pickOneValue's results, by batch index
    replay,        \* randomPicker: the results of planning the same again
    textIn,        \* toList: the text being tokenized
    tokens,        \* toList: what it returned, and what it returned for that
    presetIn,      \* resolvePresetSections: the preset being resolved
    migrated,      \* resolvePresetSections: what it returned
    presetName,    \* useLocalStorage("pa_preset")
    loads,         \* the getPreset(name) calls of the load effect in flight
    closure,       \* what the running onRun captured at the click
    saved          \* what `await savePresetToDisk()` of the run came to

vars == <<apiKey, controls, instructions, sections, prompts, busy, error,
          warn, lastPayloads, progress, pc, payloads, queue, results, index,
          workers, claimLog, counted, jobOutcome, failuresLeft, poolIn,
          seedIn, resolved, picks, replay, textIn, tokens, presetIn,
          migrated, presetName, loads, closure, saved>>

pickerVars == <<poolIn, seedIn, resolved, picks, replay>>
fnVars == <<textIn, tokens, presetIn, migrated>>
loadVars == <<presetName, loads>>

uiVars == <<apiKey, controls, instructions, sections>>
runVars == <<payloads, queue, results, index, workers, claimLog, counted,
             jobOutcome, failuresLeft>>

\* Number(x) || fallback
orElse(x, fallback) == IF x = 0 THEN fallback ELSE x

\* const N = Math.max(1, Math.min(Number(maxParallel) || 1, 10))
workerCount(maxParallel) == Max(1, Min(orElse(maxParallel, 1), MaxWorkers))

\* a worker() whose loop has ended.  Of the job a worker holds: attempt is
\* fetchWithRetry's counter (the attempts that failed), sent the fetches
\* issued, lastErr the kind of error fetchWithRetry holds in lastErr, sleeps
\* the backoff sleeps begun, delay the length of the sleep in progress, ret
\* what callOpenAI settled with
DoneWorker ==
    [phase |-> "done", myIndex |-> -1, attempt |-> 0, sent |-> 0,
     lastErr |-> "none", sleeps |-> 0, delay |-> 0,
     ret |-> [rejected |-> FALSE, isNull |-> TRUE, text |-> <<>>]]

\* mutant of loopHead: `while (index <= queue.length)`
loopHead_offByOne(idx, len) ==
    IF idx <= len
    THEN [worker |-> [DoneWorker EXCEPT !.phase = "fetch", !.myIndex = idx,
                                        !.sent = 1],
          index |-> idx + 1, log |-> <<idx>>]
    ELSE [worker |-> DoneWorker, index |-> idx, log |-> <<>>]

\* worker(): `while (index < queue.length) { const myIndex = index++; ...`
\* up to the first fetch of callOpenAI -> fetchWithRetry (attempt = 0)
loopHead(idx, len) ==
    IF idx < len
    THEN [worker |-> [DoneWorker EXCEPT !.phase = "fetch", !.myIndex = idx,
                                        !.sent = 1],
          index |-> idx + 1, log |-> <<idx>>]
    ELSE [worker |-> DoneWorker, index |-> idx, log |-> <<>>]

\* Array.from({ length: N }, () => worker()): the N calls run one after the
\* other, each up to its first await
RECURSIVE startWorkers(_, _, _)
startWorkers(n, idx, len) ==
    IF n = 0 THEN [workers |-> <<>>, index |-> idx, log |-> <<>>]
    ELSE LET h == loopHead(idx, len)
             rest == startWorkers(n - 1, h.index, len)
         IN  [workers |-> <<h.worker>> \o rest.workers,
              index |-> rest.index,
              log |-> h.log \o rest.log]

\* no pool is being resolved outside of a call of the picker
NoPool == [label |-> <<>>, isRandomized |-> FALSE]

\* a preset file with nothing in it
NoPreset == [instructions |-> <<>>, defaults |-> <<>>, sections |-> <<>>]

\* toList and resolvePresetSections have not been called
NoCall ==
    /\ textIn = <<>>
    /\ tokens = <<>>
    /\ presetIn = NoPreset
    /\ migrated = <<>>

\* the preset name localStorage holds when the component is constructed
StoredPreset == "cycle"

ZeroProgress == [total |-> 0, done |-> 0, ok |-> 0, fail |-> 0]

Init ==
    /\ apiKey \in ApiKeys
    /\ controls \in [seed : {-1}, batch : BatchValues,
                     concurrency : ConcurrencyValues]
    /\ instructions = <<>>
    /\ sections = <<>>
    /\ prompts \in StoredPrompts
    /\ busy = FALSE
    /\ error = ""
    /\ warn = <<>>
    /\ lastPayloads = <<>>
    /\ progress = ZeroProgress
    /\ pc = "idle"
    /\ payloads = <<>>
    /\ queue = <<>>
    /\ results = <<>>
    /\ index = 0
    /\ workers = <<>>
    /\ claimLog = <<>>
    /\ counted = <<>>
    /\ jobOutcome = <<>>
    /\ failuresLeft = MaxFailures
    /\ poolIn = NoPool
    /\ seedIn = -1
    /\ resolved = <<>>
    /\ picks = <<>>
    /\ replay = <<>>
    /\ NoCall
    /\ presetName = StoredPreset
    /\ loads = {StoredPreset}
    /\ closure = <<>>
    /\ saved = "none"

\* ------------------------------------------------------------------------
\* Editing.  The API key and the controls come from localStorage when the
\* component is constructed.  No input but the Send button is disabled
\* during a run; a run reads the values its closure captured at the click.
\* ------------------------------------------------------------------------
\* setApiKey(e.target.value)
setApiKey(k) ==
    /\ k # apiKey
    /\ apiKey' = k
    /\ UNCHANGED <<pickerVars, fnVars, loadVars, closure, saved,
                   controls, instructions, sections, prompts, busy, error, warn,
                   lastPayloads, progress, pc, runVars>>

\* obj[key] || fallback, obj[key] ?? fallback: a field the object lacks is
\* not in its DOMAIN
fieldOr(obj, key, fallback) ==
    IF key \in DOMAIN obj THEN obj[key] ELSE fallback

\* String(n) for 1 <= n <= 9
Digits == <<"1", "2", "3", "4", "5", "6", "7", "8", "9">>

\* LEGACY_SECTIONS
sectionKey(n) == <<"s", "e", "c", "t", "i", "o", "n", Digits[n]>>
LEGACY_SECTIONS ==
    << [sectionKey |-> sectionKey(1), legacyKey |-> <<"p", "r", "e">>,
        fallbackTitle |-> <<"P", "r", "e">>, isRandomized |-> TRUE],
       [sectionKey |-> sectionKey(2),
        legacyKey |-> <<"c", "o", "m", "p", "o", "s", "i", "t", "i", "o", "n">>,
        fallbackTitle |-> <<"C", "o", "m", "p", "o", "s", "i", "t", "i", "o", "n">>,
        isRandomized |-> TRUE],
       [sectionKey |-> sectionKey(3),
        legacyKey |-> <<"e", "n", "v", "i", "r", "o", "n", "m", "e", "n", "t">>,
        fallbackTitle |-> <<"E", "n", "v", "i", "r", "o", "n", "m", "e", "n", "t">>,
        isRandomized |-> TRUE],
       [sectionKey |-> sectionKey(4), legacyKey |-> <<"t", "i", "m", "e">>,
        fallbackTitle |-> <<"T", "i", "m", "e", " ", "o", "f", " ", "D", "a", "y">>,
        isRandomized |-> TRUE],
       [sectionKey |-> sectionKey(5),
        legacyKey |-> <<"w", "e", "a", "t", "h", "e", "r">>,
        fallbackTitle |-> <<"W", "e", "a", "t", "h", "e", "r", " ", "/", " ",
                            "A", "t", "m", "o", "s", "p", "h", "e", "r", "e">>,
        isRandomized |-> TRUE],
       [sectionKey |-> sectionKey(6),
        legacyKey |-> <<"l", "i", "g", "h", "t", "i", "n", "g">>,
        fallbackTitle |-> <<"L", "i", "g", "h", "t", "i", "n", "g">>,
        isRandomized |-> TRUE],
       [sectionKey |-> sectionKey(7), legacyKey |-> <<"l", "e", "n", "s">>,
        fallbackTitle |-> <<"L", "e", "n", "s">>, isRandomized |-> TRUE],
       [sectionKey |-> sectionKey(8), legacyKey |-> <<"p", "o", "s", "t">>,
        fallbackTitle |-> <<"P", "o", "s", "t">>, isRandomized |-> FALSE] >>

\* obj[key] of a JS object given by its entries: the value of the last
\* entry with that key, the empty string when there is none (undefined and
\* "" are both falsy where the result is used)
valueOf(entries, key) ==
    LET hits == {i \in DOMAIN entries : entries[i].k = key}
    IN  IF hits = {} THEN <<>>
        ELSE entries[CHOOSE i \in hits : \A j \in hits : j <= i].v

\* normalizedLists: the lists under their lower-cased keys
normalizedLists(lists) ==
    [i \in DOMAIN lists |-> [k |-> toLowerCase(lists[i].k), v |-> lists[i].v]]

\* candidateKeys.reduce(...) || "": the list of the first candidate key,
\* lower-cased, that the normalized lists hold a non-empty list for
RECURSIVE firstFound(_, _)
firstFound(candidateKeys, normalized) ==
    IF candidateKeys = <<>> THEN <<>>
    ELSE LET list == valueOf(normalized, toLowerCase(Head(candidateKeys)))
         IN  IF Head(candidateKeys) # <<>> /\ list # <<>> THEN list
             ELSE firstFound(Tail(candidateKeys), normalized)

\* mutant of candidateKeysOf: the legacy key only
candidateKeysOf_legacyKeyOnly(config, title) == <<config.legacyKey>>

\* candidateKeys; the upper- and lower-cased variants the code adds are
\* lower-cased again before the lookup
candidateKeysOf(config, title) ==
    <<config.legacyKey, title, config.sectionKey>>

\* resolvePresetSections, legacy format
migrateLegacy(preset) ==
    LET titles == fieldOr(preset, "sectionTitles", <<>>)
        lists == fieldOr(preset, "lists", <<>>)
    IN  [n \in DOMAIN LEGACY_SECTIONS |->
            LET config == LEGACY_SECTIONS[n]
                configuredTitle == trim(valueOf(titles, config.sectionKey))
                title == IF configuredTitle # <<>> THEN configuredTitle
                         ELSE config.fallbackTitle
            IN  [id |-> config.sectionKey,
                 title |-> title,
                 list |-> firstFound(candidateKeysOf(config, title),
                                     normalizedLists(lists)),
                 selections |-> <<>>,
                 isRandomized |-> config.isRandomized]]

\* mutant of resolveModern: every section is given its positional id
resolveModern_renumbers(section, n) ==
    [id |-> <<"s", "e", "c", "t", "i", "o", "n", "-", Digits[n]>>,
     title |-> trim(fieldOr(section, "title", <<>>)),
     list |-> fieldOr(section, "list", <<>>),
     selections |-> fieldOr(section, "selections", <<>>),
     isRandomized |-> fieldOr(section, "isRandomized", FALSE)]

\* resolvePresetSections, modern format, section n: a missing id or title
\* defaults to the position, the other fields to "", [] and false
resolveModern(section, n) ==
    LET id == fieldOr(section, "id", <<>>)
        title == trim(fieldOr(section, "title", <<>>))
    IN  [id |-> IF id # <<>> THEN id
                ELSE <<"s", "e", "c", "t", "i", "o", "n", "-", Digits[n]>>,
         title |-> IF title # <<>> THEN title
                   ELSE <<"S", "e", "c", "t", "i", "o", "n", " ", Digits[n]>>,
         list |-> fieldOr(section, "list", <<>>),
         selections |-> fieldOr(section, "selections", <<>>),
         isRandomized |-> fieldOr(section, "isRandomized", FALSE)]

\* resolvePresetSections(preset)
resolvePresetSections(preset) ==
    IF "sections" \in DOMAIN preset /\ Len(preset.sections) > 0
    THEN [n \in DOMAIN preset.sections |-> resolveModern(preset.sections[n], n)]
    ELSE migrateLegacy(preset)

\* mutant of normalizeSelected: the effect keeps every selection
normalizeSelected_keepsAll(value, selected) == selected

\* BoxEditor's normalisation effect: the selections whose trimmed lower-case
\* form is a token of the list, in their order
normalizeSelected(value, selected) ==
    LET canonical == {toLowerCase(t) : t \in Range(toList(value))}
    IN  SelectSeq(selected, LAMBDA sel : toLowerCase(trim(sel)) \in canonical)

\* every BoxEditor runs its effect after a render that changed its list or
\* its selections, and setSelected replaces the selections of its section
\* (section ids are distinct)
boxEditorEffect(secs) ==
    [n \in DOMAIN secs |->
        [secs[n] EXCEPT !.selections = normalizeSelected(secs[n].list, @)]]

\* Number.isFinite(defaults[key]) ? defaults[key] : fallback
defaultOr(defaults, key, fallback) ==
    IF key \in DOMAIN defaults THEN defaults[key] ELSE fallback

\* the instructions textarea, onChange: setInstructions(e.target.value)
setInstructions(text) ==
    /\ text # instructions
    /\ instructions' = text
    /\ UNCHANGED <<pickerVars, fnVars, loadVars, closure, saved, apiKey, controls,
                   sections, prompts, busy, error, warn, lastPayloads,
                   progress, pc, runVars>>

\* the preset select: setPresetName(name); the load effect runs again
\* when the name changed, and calls getPreset(name)
selectPreset(name) ==
    /\ name # presetName
    /\ presetName' = name
    /\ loads' = loads \cup {name}
    /\ UNCHANGED <<pickerVars, fnVars, closure, saved, uiVars, prompts, busy, error,
                   warn, lastPayloads, progress, pc, runVars>>

\* the preset load effect: a getPreset(name) in flight resolved with a file
loadPreset(name) ==
    /\ name \in loads
    /\ loads' = loads \ {name}
    /\ UNCHANGED presetName
    /\ LET presetData == PresetFiles[name]
       IN  /\ instructions' = presetData.instructions
           /\ sections' = boxEditorEffect(resolvePresetSections(presetData))
           /\ controls' =
                 [seed |-> defaultOr(presetData.defaults, "seed", -1),
                  batch |-> defaultOr(presetData.defaults, "batch", 1),
                  concurrency |-> defaultOr(presetData.defaults, "concurrency",
                                            DefaultConcurrency)]
    /\ UNCHANGED <<pickerVars, fnVars, closure, saved,
                   apiKey, prompts, busy, error, warn, lastPayloads, progress, pc,
                   runVars>>

\* onChange of the Seed, Batch and Concurrency inputs:
\* updateControl(key, Number(e.target.value))
updateControl(key, value) ==
    /\ controls' = [controls EXCEPT ![key] = value]
    /\ UNCHANGED <<pickerVars, fnVars, loadVars, closure, saved,
                   apiKey, instructions, sections, prompts, busy, error, warn,
                   lastPayloads, progress, pc, runVars>>

\* the ids crypto.randomUUID() returns
NewIds == { <<"u", d>> : d \in {"1", "2", "3", "4"} }

\* handleAddSection: a section with a fresh id, random on, nothing selected
handleAddSection(id) ==
    /\ \A n \in DOMAIN sections : sections[n].id # id
    /\ sections' = boxEditorEffect(Append(sections,
           [id |-> id,
            title |-> <<"N", "e", "w", " ", "S", "e", "c", "t", "i", "o", "n">>,
            list |-> <<>>, selections |-> <<>>, isRandomized |-> TRUE]))
    /\ UNCHANGED <<pickerVars, fnVars, loadVars, closure, saved,
                   apiKey, controls, instructions, prompts, busy,
                   error, warn, lastPayloads, progress, pc, runVars>>

\* mutant of handleSectionTitleChange: the id is not looked at
handleSectionTitleChange_everySection(secs, id, newTitle) ==
    LET trimmedTitle == trim(newTitle)
    IN  IF ~isTruthy(trimmedTitle) THEN secs
        ELSE [n \in DOMAIN secs |-> [secs[n] EXCEPT !.title = trimmedTitle]]

\* handleSectionTitleChange(id, newTitle): what setSections is left with
handleSectionTitleChange(secs, id, newTitle) ==
    LET trimmedTitle == trim(newTitle)
    IN  IF ~isTruthy(trimmedTitle) THEN secs
        ELSE [n \in DOMAIN secs |->
                 IF secs[n].id = id
                 THEN [secs[n] EXCEPT !.title = trimmedTitle]
                 ELSE secs[n]]

\* EditableSectionTitle of section n, handleSave with editValue typed in:
\* onTitleChange is called for a non-blank value that differs from the title
handleSave(n, editValue) ==
    /\ n \in DOMAIN sections
    /\ LET trimmedValue == trim(editValue)
       IN  sections' =
             IF isTruthy(trimmedValue) /\ trimmedValue # sections[n].title
             THEN boxEditorEffect(
                      handleSectionTitleChange(sections, sections[n].id,
                                               trimmedValue))
             ELSE sections
    /\ UNCHANGED <<pickerVars, fnVars, loadVars, closure, saved,
                   apiKey, controls, instructions, prompts, busy,
                   error, warn, lastPayloads, progress, pc, runVars>>

\* BoxEditor, textarea onChange: setValue(e.target.value) on section n
setValue(n, text) ==
    /\ n \in DOMAIN sections
    /\ sections' = boxEditorEffect([sections EXCEPT ![n].list = text])
    /\ UNCHANGED <<pickerVars, fnVars, loadVars, closure, saved,
                   apiKey, controls, instructions, prompts, busy,
                   error, warn, lastPayloads, progress, pc, runVars>>

\* BoxEditor toggle(opt): opt is one of the option buttons, toList(value)
toggle(n, k) ==
    /\ n \in DOMAIN sections
    /\ k \in DOMAIN toList(sections[n].list)
    /\ LET opt == toList(sections[n].list)[k]
           selected == sections[n].selections
           has == opt \in Range(selected)
       IN  sections' = boxEditorEffect(
               IF has
               THEN [sections EXCEPT ![n].selections =
                        SelectSeq(selected, LAMBDA o : o # opt)]
               ELSE [sections EXCEPT ![n].selections = Append(selected, opt),
                                     ![n].isRandomized = FALSE])
    /\ UNCHANGED <<pickerVars, fnVars, loadVars, closure, saved,
                   apiKey, controls, instructions, prompts, busy,
                   error, warn, lastPayloads, progress, pc, runVars>>

\* mutant of toggleRandom: turning random on leaves the selections alone
toggleRandom_keepsSelections(n) ==
    /\ n \in DOMAIN sections
    /\ sections' = boxEditorEffect(
           [sections EXCEPT ![n].isRandomized = ~sections[n].isRandomized])
    /\ UNCHANGED <<pickerVars, fnVars, loadVars, closure, saved,
                   apiKey, controls, instructions, prompts, busy,
                   error, warn, lastPayloads, progress, pc, runVars>>

\* BoxEditor toggleRandom(): turning random on clears the selections
toggleRandom(n) ==
    /\ n \in DOMAIN sections
    /\ LET willBeOn == ~sections[n].isRandomized
       IN  sections' = boxEditorEffect(
               IF willBeOn
               THEN [sections EXCEPT ![n].isRandomized = TRUE,
                                     ![n].selections = <<>>]
               ELSE [sections EXCEPT ![n].isRandomized = FALSE])
    /\ UNCHANGED <<pickerVars, fnVars, loadVars, closure, saved,
                   apiKey, controls, instructions, prompts, busy,
                   error, warn, lastPayloads, progress, pc, runVars>>

\* ------------------------------------------------------------------------
\* onRun
\* ------------------------------------------------------------------------
\* the draws of one run: rnds[i + 1][n] / RandomDen is what Math.random()
\* returns for batch item i and section n; pickOneValue draws for randomized
\* sections only
DrawSets(batchSize, secs) ==
    [1..batchSize ->
        {rnd \in [1..Len(secs) -> 0..(RandomDen - 1)] :
            \A n \in 1..Len(secs) : ~secs[n].isRandomized => rnd[n] = 0}]

\* onRun's guardrail warnings
warnings(ctl) ==
    (IF ctl.batch > BatchAdvisory THEN <<"Large batch">> ELSE <<>>)
      \o (IF ctl.concurrency > ConcurrencyAdvisory
          THEN <<"High concurrency">> ELSE <<>>)

\* mutant of keyMissing: the check of the key is left out
keyMissing_never(k) == FALSE

\* `!apiKey`
keyMissing(k) == k = ""

\* mutant of batchSizeOf: the batch is cut down to the advisory ceiling
batchSizeOf_capped(ctl) == Min(BatchAdvisory, Max(1, orElse(ctl.batch, 1)))

\* mutant of batchSizeOf: the stored value is used as it is
batchSizeOf_raw(ctl) == ctl.batch

\* const batchSize = Math.max(1, Number(controls.batch) || 1)
batchSizeOf(ctl) == Max(1, orElse(ctl.batch, 1))

\* what the callbacks of one render hold: onRun, callLLM and
\* buildLLMMessages are useCallback closures over these values
capture ==
    [apiKey |-> apiKey, controls |-> controls, instructions |-> instructions,
     sections |-> sections]

\* mutant of seenBy: the run reads the state as it is now
seenBy_live(cl) == capture

\* what the callbacks of the running onRun read: the values of the render
\* they were created in
seenBy(cl) == cl[1]

\* onRun, from the click to `await savePresetToDisk()`
onRun ==
    /\ pc = "idle"
    /\ ~busy
    /\ UNCHANGED <<failuresLeft, pickerVars, fnVars, loadVars>>
    /\ closure' = IF keyMissing(apiKey) THEN closure ELSE <<capture>>
    /\ saved' = IF keyMissing(apiKey) THEN "none" ELSE "pending"
    /\ error' = IF keyMissing(apiKey)
                THEN "Enter your OpenAI API key to generate prompts."
                ELSE ""
    /\ queue' = <<>>
    /\ results' = <<>>
    /\ index' = 0
    /\ workers' = <<>>
    /\ claimLog' = <<>>
    /\ counted' = <<>>
    /\ jobOutcome' = <<>>
    /\ IF keyMissing(apiKey)
       THEN /\ warn' = <<>>
            /\ progress' = ZeroProgress
            /\ busy' = FALSE
            /\ pc' = "idle"
            /\ payloads' = <<>>
            /\ UNCHANGED <<uiVars, prompts, lastPayloads>>
       ELSE LET batchSize == batchSizeOf(controls)
            IN  \E rnds \in DrawSets(batchSize, sections) :
                  LET built == [i \in 1..batchSize |->
                                   buildOne(sections, i - 1, controls.seed,
                                            rnds[i])]
                  IN  /\ payloads' = built
                      /\ lastPayloads' = built
                      /\ progress' = [ZeroProgress EXCEPT !.total = Len(built)]
                      /\ warn' = warnings(controls)
                      /\ busy' = TRUE
                      /\ pc' = "saving"
                      /\ UNCHANGED <<uiVars, prompts>>

\* what putPreset resolves with: the result of the save API, or, when the
\* API call failed in any way, the result of the download it falls back to
SaveResults == {"api", "download"}
\* the saves of the sessions that dispatch: the API took the preset
SavedByApi == {"api"}

\* mutant of saveStops: a save the API did not take ends the run
saveStops_unlessApi(saveResult) == saveResult # "api"

\* if (!saveResult?.success && saveResult?.error) console.warn(...): whatever
\* the save came to, onRun goes on
saveStops(saveResult) == FALSE

\* onRun resumes after the save, which resolved with saveResult:
\* callLLM(payloads, Number(concurrency) || 4) up to `await Promise.all(...)`
callLLM(saveResult) ==
    /\ pc = "saving"
    /\ saved' = saveResult
    /\ IF saveStops(saveResult) \/ keyMissing(seenBy(closure).apiKey)
       THEN /\ error' = "No API key set. Enter your OpenAI API key to use Send to GPT."
            /\ busy' = FALSE
            /\ pc' = "idle"
            /\ UNCHANGED <<uiVars, prompts, warn, lastPayloads, progress, runVars,
                           pickerVars, fnVars, loadVars, closure>>
       ELSE LET maxParallel == orElse(seenBy(closure).controls.concurrency,
                                      DefaultConcurrency)
                q == [i \in DOMAIN payloads |->
                         buildLLMMessages(seenBy(closure).sections,
                                          seenBy(closure).instructions,
                                          payloads[i])]
                started == startWorkers(workerCount(maxParallel), 0, Len(q))
            IN  /\ queue' = q
                /\ results' = [i \in DOMAIN q |-> <<>>]
                /\ progress' = [total |-> Len(q), done |-> 0, ok |-> 0, fail |-> 0]
                /\ index' = started.index
                /\ workers' = started.workers
                /\ claimLog' = started.log
                /\ counted' = [i \in DOMAIN q |-> 0]
                /\ jobOutcome' = [i \in DOMAIN q |-> "pending"]
                /\ pc' = "dispatching"
                /\ UNCHANGED <<uiVars, prompts, busy, error, warn, lastPayloads,
                               payloads, failuresLeft, pickerVars, fnVars,
                               loadVars, closure>>

\* ------------------------------------------------------------------------
\* callOpenAI / fetchWithRetry
\* ------------------------------------------------------------------------
\* res.ok
isOk(r) == r.kind = "http" /\ r.status >= 200 /\ r.status <= 299

\* res.status === 429 || (res.status >= 500 && res.status <= 599)
isRetryableStatus(r) ==
    r.kind = "http" /\ (r.status = 429 \/ (r.status >= 500 /\ r.status <= 599))

\* what lastErr records of a settled fetch
errorClass(r) ==
    IF r.kind = "abort" THEN "timeout"
    ELSE IF isRetryableStatus(r) THEN "retryable"
    ELSE "terminal"

\* the try/catch of one attempt: "return" when the response is ok; every
\* other outcome leaves the try block with lastErr set, either directly (a
\* retryable status), or through the catch clause, which catches the
\* AbortError and the Error thrown for any other status alike
attemptOutcome(r) ==
    IF r.kind = "abort" THEN "continue"
    ELSE IF isOk(r) THEN "return"
    ELSE IF isRetryableStatus(r) THEN "continue"
    ELSE "continue"

\* mutant of attemptAfterFailure: the catch clause `continue`s on an
\* AbortError, so a timeout does not count as an attempt
attemptAfterFailure_timeoutFree(attempt, r) ==
    IF r.kind = "abort" THEN attempt ELSE attempt + 1

\* `attempt++` after the try/catch, whatever made the attempt fail
attemptAfterFailure(attempt, r) == attempt + 1

\* mutant of backoffWanted: the sleep is taken after every failed attempt
backoffWanted_always(attempt) == TRUE

\* `if (attempt < tries)` before the backoff sleep, attempt already
\* incremented
backoffWanted(attempt) == attempt < maxRetries

\* `while (attempt < tries)`
loopContinues(attempt) == attempt < maxRetries

\* mutant of backoffDelay: Math.pow(2, attempt)
backoffDelay_offByOne(attempt, jitter) == baseDelay * Pow2(attempt) + jitter

\* baseDelay * Math.pow(2, attempt - 1) + jitter, attempt already incremented
backoffDelay(attempt, jitter) == baseDelay * Pow2(attempt - 1) + jitter

\* useAPI.execute(apiCall): a throw of apiCall becomes the value null
execute(call) ==
    IF call.threw
    THEN [rejected |-> FALSE, isNull |-> TRUE, text |-> <<>>]
    ELSE [rejected |-> FALSE, isNull |-> FALSE, text |-> call.value]

\* data?.choices?.[0]?.message?.content?.trim?.() || ""
contentOf(messages) == trim(serverContent(messages))

\* fetchWithRetry at the head of its while loop, attempt failures behind it:
\* the next fetch, or `throw lastErr` and with it the end of callOpenAI
nextAttempt(me) ==
    IF loopContinues(me.attempt)
    THEN [me EXCEPT !.phase = "fetch", !.sent = @ + 1, !.delay = 0]
    ELSE [me EXCEPT !.phase = "settled", !.delay = 0,
                    !.ret = execute([threw |-> TRUE, value |-> <<>>])]

\* how the job of a worker stands once the worker is in state me
outcomeOf(me, before) ==
    IF me.phase # "settled" THEN before
    ELSE IF me.ret.isNull THEN "failed" ELSE "ok"

\* the fetch of worker w settles with response r; fetchWithRetry runs to its
\* next await (the backoff sleep or the next fetch) or to its end, and then
\* callOpenAI settles
fetchSettles(w, r) ==
    /\ pc = "dispatching"
    /\ w \in DOMAIN workers
    /\ workers[w].phase = "fetch"
    /\ LET me == workers[w]
           job == me.myIndex + 1
           failed == [me EXCEPT !.attempt = attemptAfterFailure(@, r),
                                !.lastErr = errorClass(r)]
       IN  IF attemptOutcome(r) = "return"
           THEN /\ workers' = [workers EXCEPT ![w] =
                      [me EXCEPT !.phase = "settled",
                                 !.ret = execute([threw |-> FALSE,
                                                  value |-> contentOf(queue[job])])]]
                /\ jobOutcome' = [jobOutcome EXCEPT ![job] = "ok"]
                /\ UNCHANGED failuresLeft
           ELSE /\ failuresLeft > 0
                /\ failuresLeft' = failuresLeft - 1
                /\ IF backoffWanted(failed.attempt)
                   THEN \E jitter \in Jitters :
                          workers' = [workers EXCEPT ![w] =
                              [failed EXCEPT !.phase = "sleep",
                                             !.sleeps = @ + 1,
                                             !.delay = backoffDelay(failed.attempt,
                                                                    jitter)]]
                   ELSE workers' = [workers EXCEPT ![w] = nextAttempt(failed)]
                /\ jobOutcome' = [jobOutcome EXCEPT ![job] =
                                     outcomeOf(workers'[w], @)]
    /\ UNCHANGED <<pickerVars, fnVars, loadVars, closure, saved,
                   uiVars, prompts, busy, error, warn, lastPayloads,
                   progress, pc,
                   payloads, queue, results, index, claimLog, counted>>

\* the backoff sleep of worker w ends: back to the head of the while loop
sleepEnds(w) ==
    /\ pc = "dispatching"
    /\ w \in DOMAIN workers
    /\ workers[w].phase = "sleep"
    /\ workers' = [workers EXCEPT ![w] = nextAttempt(@)]
    /\ jobOutcome' = [jobOutcome EXCEPT ![workers[w].myIndex + 1] =
                         outcomeOf(workers'[w], @)]
    /\ UNCHANGED <<pickerVars, fnVars, loadVars, closure, saved,
                   uiVars, prompts, busy, error, warn, lastPayloads,
                   progress, pc,
                   payloads, queue, results, index, claimLog, counted,
                   failuresLeft>>

\* ------------------------------------------------------------------------
\* callLLM: the workers and the end of the run
\* ------------------------------------------------------------------------
\* mutant of recordResult: results[index] = ..., the shared cursor in place
\* of the captured myIndex
recordResult_usesCursor(res, myIndex, ret) ==
    [res EXCEPT ![index + 1] =
        IF ret.rejected THEN <<>>
        ELSE IF ret.isNull THEN <<>> ELSE ret.text]

\* the try/catch of worker(): results[myIndex] = result || "" when
\* callOpenAI fulfilled, results[myIndex] = "" when it rejected
recordResult(res, myIndex, ret) ==
    [res EXCEPT ![myIndex + 1] =
        IF ret.rejected THEN <<>>
        ELSE IF ret.isNull THEN <<>> ELSE ret.text]

\* mutant of countJob: a null result is not counted at all
countJob_skipsNull(p, ret) ==
    IF ret.rejected
    THEN [p EXCEPT !.done = @ + 1, !.fail = @ + 1]
    ELSE IF ret.isNull THEN p
    ELSE [p EXCEPT !.done = @ + 1, !.ok = @ + 1]

\* mutant of countJob: the success branch forgets `done`
countJob_forgetsDone(p, ret) ==
    IF ret.rejected
    THEN [p EXCEPT !.done = @ + 1, !.fail = @ + 1]
    ELSE [p EXCEPT !.ok = @ + 1]

\* setProgress(p => ({ ...p, done: p.done + 1, ok: p.ok + 1 })) when
\* callOpenAI fulfilled, ... fail: p.fail + 1 when it rejected
countJob(p, ret) ==
    IF ret.rejected
    THEN [p EXCEPT !.done = @ + 1, !.fail = @ + 1]
    ELSE [p EXCEPT !.done = @ + 1, !.ok = @ + 1]

\* mutant of afterJob: a failed job ends its worker's loop
afterJob_stopsOnFailure(ret, idx, len) ==
    IF ret.rejected \/ ret.isNull
    THEN [worker |-> DoneWorker, index |-> idx, log |-> <<>>]
    ELSE loopHead(idx, len)

\* the end of the loop body of worker(): the try/catch lets no outcome of
\* the job out of the body, so the worker goes back to the loop head
afterJob(ret, idx, len) == loopHead(idx, len)

\* worker w resumes after `await openAI.callOpenAI(...)`: it records the
\* result, updates the progress and goes round its loop
workerResumes(w) ==
    /\ pc = "dispatching"
    /\ w \in DOMAIN workers
    /\ workers[w].phase = "settled"
    /\ LET me == workers[w]
           next == afterJob(me.ret, index, Len(queue))
       IN  /\ results' = recordResult(results, me.myIndex, me.ret)
           /\ progress' = countJob(progress, me.ret)
           /\ counted' = [counted EXCEPT ![me.myIndex + 1] = @ + 1]
           /\ workers' = [workers EXCEPT ![w] = next.worker]
           /\ index' = next.index
           /\ claimLog' = claimLog \o next.log
    /\ UNCHANGED <<pickerVars, fnVars, loadVars, closure, saved,
                   uiVars, prompts, busy, error, warn, lastPayloads,
                   pc, payloads,
                   queue, jobOutcome, failuresLeft>>

\* mutant of allReturned: Promise.race, the first worker() to return
allReturned_race(ws) == \E w \in DOMAIN ws : ws[w].phase = "done"

\* await Promise.all(...): every worker() has returned
allReturned(ws) == \A w \in DOMAIN ws : ws[w].phase = "done"

\* mutant of onRunReturns: the run ends without its finally clause
onRunReturns_staysBusy ==
    /\ pc = "dispatching"
    /\ allReturned(workers)
    /\ prompts' = results
    /\ pc' = "returned"
    /\ UNCHANGED <<uiVars, busy, error, warn, lastPayloads, progress, runVars,
                   pickerVars, fnVars, loadVars, closure, saved>>

\* Promise.all resolves: callLLM returns results, onRun stores them and
\* its finally clause clears busy
onRunReturns ==
    /\ pc = "dispatching"
    /\ allReturned(workers)
    /\ prompts' = results
    /\ busy' = FALSE
    /\ pc' = "returned"
    /\ UNCHANGED <<uiVars, error, warn, lastPayloads, progress, runVars,
                   pickerVars, fnVars, loadVars, closure, saved>>

\* the render after a run has returned: the Send button, disabled={busy},
\* can be clicked again
rerender ==
    /\ pc = "returned"
    /\ ~busy
    /\ pc' = "idle"
    /\ UNCHANGED <<uiVars, prompts, busy, error, warn, lastPayloads, progress,
                   runVars, pickerVars, fnVars, loadVars, closure, saved>>

\* no run is under way: the sessions of Spec and EditSpec edit between
\* runs only
Idle == pc = "idle"

\* the presets loaded in the sessions that go on to dispatch: their payloads
\* need no random draw (the planning of randomized sections is explored by
\* the specifications of the planner)
DispatchPresets == {"cycle"}

Next ==
    \/ Idle /\ \E k \in ApiKeys : setApiKey(k)
    \/ Idle /\ \E name \in DispatchPresets : loadPreset(name)
    \/ Idle /\ \E value \in BatchValues : updateControl("batch", value)
    \/ Idle /\ \E value \in ConcurrencyValues :
                  updateControl("concurrency", value)
    \/ onRun
    \/ \E saveResult \in SavedByApi : callLLM(saveResult)
    \/ \E w \in 1..MaxWorkers, r \in Responses : fetchSettles(w, r)
    \/ \E w \in 1..MaxWorkers : sleepEnds(w)
    \/ \E w \in 1..MaxWorkers : workerResumes(w)
    \/ onRunReturns

Spec == Init /\ [][Next]_vars

\* every issued request settles (with a response or by its timeout), every
\* backoff sleep ends, every settled callOpenAI resumes its worker, and
\* Promise.all resolves once every worker has returned
Fairness ==
    /\ WF_vars(\E w \in 1..MaxWorkers, r \in Responses : fetchSettles(w, r))
    /\ WF_vars(\E w \in 1..MaxWorkers : sleepEnds(w))
    /\ WF_vars(\E w \in 1..MaxWorkers : workerResumes(w))
    /\ WF_vars(onRunReturns)

FairSpec == Spec /\ Fairness

\* ------------------------------------------------------------------------
\* The editing session: sections are loaded and edited, and a run plans its
\* payloads from them once the preset loads have settled (the dispatch of
\* the payloads is left to Spec)
\* ------------------------------------------------------------------------
EditInit ==
    /\ Init
    /\ apiKey # ""
    /\ controls.concurrency = 0
    /\ controls.batch = 1
    /\ prompts = <<>>

EditNext ==
    \/ Idle /\ loads = {} /\ \E name \in DOMAIN PresetFiles : selectPreset(name)
    \/ Idle /\ \E name \in DOMAIN PresetFiles : loadPreset(name)
    \/ Idle /\ \E value \in BatchValues : updateControl("batch", value)
    \/ Idle /\ \E value \in SeedValues : updateControl("seed", value)
    \/ Idle /\ \E n \in DOMAIN sections, text \in ListEdits : setValue(n, text)
    \/ Idle /\ \E n \in DOMAIN sections :
                  \E k \in DOMAIN toList(sections[n].list) : toggle(n, k)
    \/ Idle /\ \E n \in DOMAIN sections : toggleRandom(n)
    \/ loads = {} /\ onRun

EditSpec == EditInit /\ [][EditNext]_vars

\* ------------------------------------------------------------------------
\* The session that goes on editing while a run is under way: the stored
\* preset's load may settle, and the instructions, a list or the
\* concurrency may be edited, at any moment of the run
\* ------------------------------------------------------------------------
InstructionEdits == { <<>>, <<"j">> }

LiveInit ==
    /\ Init
    /\ apiKey # ""
    /\ controls.batch = 2
    /\ controls.concurrency = -1
    /\ prompts = <<>>

LiveNext ==
    \/ \E name \in DispatchPresets : loadPreset(name)
    \/ \E text \in InstructionEdits : setInstructions(text)
    \/ \E n \in DOMAIN sections, text \in ListEdits : setValue(n, text)
    \/ \E value \in ConcurrencyValues : updateControl("concurrency", value)
    \/ onRun
    \/ \E saveResult \in SavedByApi : callLLM(saveResult)
    \/ \E w \in 1..MaxWorkers, r \in Responses : fetchSettles(w, r)
    \/ \E w \in 1..MaxWorkers : sleepEnds(w)
    \/ \E w \in 1..MaxWorkers : workerResumes(w)
    \/ onRunReturns

LiveSpec == LiveInit /\ [][LiveNext]_vars

\* ------------------------------------------------------------------------
\* Runs at and past the advisory ceilings: the stored preset has loaded and
\* the Batch and Concurrency inputs have been edited.  The responses of a
\* run hold as many failures as it takes for one job to use up its attempts.
\* ------------------------------------------------------------------------
AdvisoryControls ==
    { [seed |-> -1, batch |-> BatchAdvisory, concurrency |-> -1],
      [seed |-> -1, batch |-> BatchAdvisory + 1, concurrency |-> -1],
      [seed |-> -1, batch |-> 2, concurrency |-> ConcurrencyAdvisory],
      [seed |-> -1, batch |-> 2, concurrency |-> 50] }

AdvisoryInit ==
    /\ apiKey = "sk-test"
    /\ controls \in AdvisoryControls
    /\ instructions = PresetFiles[StoredPreset].instructions
    /\ sections =
          boxEditorEffect(resolvePresetSections(PresetFiles[StoredPreset]))
    /\ prompts = <<>>
    /\ busy = FALSE
    /\ error = ""
    /\ warn = <<>>
    /\ lastPayloads = <<>>
    /\ progress = ZeroProgress
    /\ pc = "idle"
    /\ payloads = <<>>
    /\ queue = <<>>
    /\ results = <<>>
    /\ index = 0
    /\ workers = <<>>
    /\ claimLog = <<>>
    /\ counted = <<>>
    /\ jobOutcome = <<>>
    /\ failuresLeft = maxRetries
    /\ poolIn = NoPool
    /\ seedIn = -1
    /\ resolved = <<>>
    /\ picks = <<>>
    /\ replay = <<>>
    /\ NoCall
    /\ presetName = StoredPreset
    /\ loads = {}
    /\ closure = <<>>
    /\ saved = "none"

AdvisoryNext ==
    \/ onRun
    \/ \E saveResult \in SavedByApi : callLLM(saveResult)
    \/ \E w \in 1..MaxWorkers, r \in Responses : fetchSettles(w, r)
    \/ \E w \in 1..MaxWorkers : sleepEnds(w)
    \/ \E w \in 1..MaxWorkers : workerResumes(w)
    \/ onRunReturns

AdvisorySpec == AdvisoryInit /\ [][AdvisoryNext]_vars

\* ------------------------------------------------------------------------
\* The box editors of sections added by hand while the preset load is
\* pending: every section starts with random on and nothing selected
\* ------------------------------------------------------------------------
BoxInit ==
    /\ Init
    /\ apiKey = ""
    /\ controls.batch = 1
    /\ controls.concurrency = 0
    /\ prompts = <<>>

BoxNext ==
    \/ Len(sections) < MaxSections /\ \E id \in NewIds : handleAddSection(id)
    \/ \E n \in DOMAIN sections, text \in ListEdits : setValue(n, text)
    \/ \E n \in DOMAIN sections, k \in 1..MaxText : toggle(n, k)
    \/ \E n \in DOMAIN sections : toggleRandom(n)

BoxSpec == BoxInit /\ [][BoxNext]_vars

\* ------------------------------------------------------------------------
\* The preset select changed while loads are in flight: the load effect has
\* no cancellation, every getPreset settles in its own time and then sets
\* the instructions, the sections and the controls
\* ------------------------------------------------------------------------
RaceNext ==
    \/ \E name \in DOMAIN PresetFiles : selectPreset(name)
    \/ \E name \in DOMAIN PresetFiles : loadPreset(name)

RaceSpec == Init /\ [][RaceNext]_vars

\* ------------------------------------------------------------------------
\* Run after run: the API key may be typed or cleared and the stored preset
\* may finish loading at any moment, and Send is clicked whenever the button
\* allows it
\* ------------------------------------------------------------------------
BusyInit ==
    /\ Init
    /\ controls.batch = 2
    /\ controls.concurrency = -1
    /\ prompts = <<>>

BusyNext ==
    \/ \E k \in ApiKeys : setApiKey(k)
    \/ \E name \in DispatchPresets : loadPreset(name)
    \/ onRun
    \/ \E saveResult \in SavedByApi : callLLM(saveResult)
    \/ \E w \in 1..MaxWorkers, r \in Responses : fetchSettles(w, r)
    \/ \E w \in 1..MaxWorkers : sleepEnds(w)
    \/ \E w \in 1..MaxWorkers : workerResumes(w)
    \/ onRunReturns
    \/ rerender

BusySpec == BusyInit /\ [][BusyNext]_vars

\* ------------------------------------------------------------------------
\* Runs whose save goes either way: taken by the API, or refused and turned
\* into a download
\* ------------------------------------------------------------------------
SaveInit ==
    /\ Init
    /\ apiKey # ""
    /\ controls.batch = 2
    /\ controls.concurrency = -1
    /\ prompts = <<>>

SaveNext ==
    \/ \E name \in DispatchPresets : loadPreset(name)
    \/ onRun
    \/ \E saveResult \in SaveResults : callLLM(saveResult)
    \/ \E w \in 1..MaxWorkers, r \in Responses : fetchSettles(w, r)
    \/ \E w \in 1..MaxWorkers : sleepEnds(w)
    \/ \E w \in 1..MaxWorkers : workerResumes(w)
    \/ onRunReturns

SaveSpec == SaveInit /\ [][SaveNext]_vars

\* ------------------------------------------------------------------------
\* Renaming: presets are selected and loaded, sections are added, and the
\* titles of the sections are edited
\* ------------------------------------------------------------------------
\* texts left in the title input when it is saved
TitleEdits ==
    { <<>>, <<" ">>, <<" ", "V", " ">>, <<"T">>, <<"U", " ">>, <<"\n", " ">> }

TitleInit ==
    /\ Init
    /\ apiKey = ""
    /\ controls.batch = 1
    /\ controls.concurrency = 0

TitleNext ==
    \/ loads = {} /\ \E name \in DOMAIN PresetFiles : selectPreset(name)
    \/ \E name \in DOMAIN PresetFiles : loadPreset(name)
    \/ Len(sections) < MaxSections /\ \E id \in NewIds : handleAddSection(id)
    \/ \E n \in DOMAIN sections, text \in TitleEdits : handleSave(n, text)

TitleSpec == TitleInit /\ [][TitleNext]_vars

\* ------------------------------------------------------------------------
\* The candidate picker on its own: getCandidates and pickOneValue applied
\* to pools and seeds of every shape the CandidatePool type allows
\* ------------------------------------------------------------------------
PoolLabels == { <<"s", "1">>, <<"s", "2">> }
PoolListTexts ==
    { <<"a", ",", " ", "b", ",", "\n", "A", ",", "c">>, <<" ", ",", "x">> }
PoolListArrays == { <<>>, << <<" ", "b">>, <<>>, <<"B">>, <<"a", " ">> >> }
PoolSelections ==
    { <<>>, << <<" ">> >>, << <<"C">>, <<"c", " ">>, <<"a">> >>, << <<"z">> >> }

\* a record f extended with the field name
withField(f, name, value) ==
    [k \in DOMAIN f \cup {name} |-> IF k = name THEN value ELSE f[k]]

Pools ==
    LET required == [label : PoolLabels, isRandomized : BOOLEAN]
        withText == required \cup
            {withField(p, "listText", t) : p \in required, t \in PoolListTexts}
        withArray == withText \cup
            {withField(p, "listArray", a) : p \in withText, a \in PoolListArrays}
    IN  withArray \cup
            {withField(p, "selections", x) : p \in withArray, x \in PoolSelections}

\* the seeds of the picker: those of the Seed input, and two whose generator
\* for pool s1 and batch index 0 gives a value at either end of [0, 1):
\* 0xFFFF0FC8 / 2^32 for 13879 and 0x0000ACA6 / 2^32 for 56387
PickerSeeds == SeedValues \cup {13879, 56387}

PickerInit ==
    /\ apiKey = ""
    /\ controls = [seed |-> -1, batch |-> 1, concurrency |-> DefaultConcurrency]
    /\ instructions = <<>>
    /\ sections = <<>>
    /\ prompts = <<>>
    /\ busy = FALSE
    /\ error = ""
    /\ warn = <<>>
    /\ lastPayloads = <<>>
    /\ progress = ZeroProgress
    /\ pc = "idle"
    /\ payloads = <<>>
    /\ queue = <<>>
    /\ results = <<>>
    /\ index = 0
    /\ workers = <<>>
    /\ claimLog = <<>>
    /\ counted = <<>>
    /\ jobOutcome = <<>>
    /\ failuresLeft = MaxFailures
    /\ poolIn \in Pools
    /\ seedIn \in PickerSeeds
    /\ resolved = <<>>
    /\ picks = <<>>
    /\ replay = <<>>
    /\ NoCall
    /\ presetName = StoredPreset
    /\ loads = {StoredPreset}
    /\ closure = <<>>
    /\ saved = "none"

appVars == <<apiKey, controls, instructions, sections, prompts, busy, error,
             warn, lastPayloads, progress, pc, runVars>>

\* const candidates = getCandidates(pool)
resolve ==
    /\ resolved = <<>>
    /\ resolved' = <<getCandidates(poolIn)>>
    /\ UNCHANGED <<appVars, fnVars, loadVars, closure, saved, poolIn, seedIn, picks, replay>>

\* pickOneValue(pool, seedBase, batchIndex, sectionId) for the next batch
\* index; the pool's label is passed as its identity
pick(rnd) ==
    /\ resolved # <<>>
    /\ Len(picks) < MaxPicks
    /\ picks' = Append(picks, pickOneValue(poolIn, seedIn, Len(picks),
                                           poolIn.label, rnd))
    /\ UNCHANGED <<appVars, fnVars, loadVars, closure, saved, poolIn, seedIn, resolved, replay>>

\* the same call made a second time, for a batch index already picked, under
\* a seed that is not -1
pickAgain(rnd) ==
    /\ seedIn # -1
    /\ Len(replay) < Len(picks)
    /\ replay' = Append(replay, pickOneValue(poolIn, seedIn, Len(replay),
                                             poolIn.label, rnd))
    /\ UNCHANGED <<appVars, fnVars, loadVars, closure, saved, poolIn, seedIn, resolved, picks>>

PickerNext ==
    \/ resolve
    \/ \E rnd \in 0..(RandomDen - 1) : pick(rnd)
    \/ \E rnd \in 0..(RandomDen - 1) : pickAgain(rnd)

PickerSpec == PickerInit /\ [][PickerNext]_vars

\* ------------------------------------------------------------------------
\* Two runs of one configuration under seed -1: the randomized pools of a
\* section (list text and selections), planned once in full and then again
\* for the first batch items
\* ------------------------------------------------------------------------
RerunPools ==
    {p \in Pools : p.isRandomized /\ "listArray" \notin DOMAIN p}

RerunInit ==
    /\ PickerInit
    /\ seedIn = -1
    /\ poolIn \in RerunPools

\* pickOneValue for a batch index of the second run
pickRerun(rnd) ==
    /\ seedIn = -1
    /\ Len(picks) = MaxPicks
    /\ Len(replay) < MaxReplay
    /\ replay' = Append(replay, pickOneValue(poolIn, seedIn, Len(replay),
                                             poolIn.label, rnd))
    /\ UNCHANGED <<appVars, fnVars, loadVars, closure, saved, poolIn, seedIn, resolved, picks>>

RerunNext ==
    \/ resolve
    \/ \E rnd \in 0..(RandomDen - 1) : pick(rnd)
    \/ \E rnd \in 0..(RandomDen - 1) : pickRerun(rnd)

RerunSpec == RerunInit /\ [][RerunNext]_vars

\* ------------------------------------------------------------------------
\* The plans of a randomized pool under a seed and under the next seed
\* ------------------------------------------------------------------------
\* seeds typed into the Seed input: s and s + 1 are both other than -1
ShiftSeeds == (PickerSeeds \ {-1}) \cup {-7, 2147418000}

ShiftInit ==
    /\ apiKey = ""
    /\ controls = [seed |-> -1, batch |-> 1, concurrency |-> DefaultConcurrency]
    /\ instructions = <<>>
    /\ sections = <<>>
    /\ prompts = <<>>
    /\ busy = FALSE
    /\ error = ""
    /\ warn = <<>>
    /\ lastPayloads = <<>>
    /\ progress = ZeroProgress
    /\ pc = "idle"
    /\ payloads = <<>>
    /\ queue = <<>>
    /\ results = <<>>
    /\ index = 0
    /\ workers = <<>>
    /\ claimLog = <<>>
    /\ counted = <<>>
    /\ jobOutcome = <<>>
    /\ failuresLeft = MaxFailures
    /\ poolIn \in RerunPools
    /\ seedIn \in ShiftSeeds
    /\ resolved = <<>>
    /\ picks = <<>>
    /\ replay = <<>>
    /\ NoCall
    /\ presetName = StoredPreset
    /\ loads = {StoredPreset}
    /\ closure = <<>>
    /\ saved = "none"

\* pickOneValue(pool, seedBase + 1, batchIndex, sectionId) for the next
\* batch index of the plan under the next seed
pickShifted(rnd) ==
    /\ resolved # <<>>
    /\ Len(replay) < MaxPicks
    /\ replay' = Append(replay, pickOneValue(poolIn, seedIn + 1, Len(replay),
                                             poolIn.label, rnd))
    /\ UNCHANGED <<appVars, fnVars, loadVars, closure, saved, poolIn, seedIn, resolved, picks>>

ShiftNext ==
    \/ resolve
    \/ \E rnd \in 0..(RandomDen - 1) : pick(rnd)
    \/ \E rnd \in 0..(RandomDen - 1) : pickShifted(rnd)

ShiftSpec == ShiftInit /\ [][ShiftNext]_vars

\* ------------------------------------------------------------------------
\* The planner on its own: onRun plans a batch from sections of every shape
\* buildOne provides for, untitled sections and sections without a value
\* included
\* ------------------------------------------------------------------------
PlanSectionInputs ==
    { [id |-> <<"s", "1">>, title |-> <<" ">>, list |-> <<"a", ",", "b">>,
       selections |-> <<>>, isRandomized |-> FALSE],
      [id |-> <<"s", "1">>, title |-> <<"T">>, list |-> <<"a", ",", " ", "b">>,
       selections |-> <<>>, isRandomized |-> FALSE],
      [id |-> <<"s", "2">>, title |-> <<"T">>, list |-> <<"x">>,
       selections |-> <<>>, isRandomized |-> FALSE],
      [id |-> <<"s", "2">>, title |-> <<"U">>, list |-> <<" ", ",", " ">>,
       selections |-> << <<" ">> >>, isRandomized |-> FALSE],
      [id |-> <<"s", "2">>, title |-> <<"U">>, list |-> <<"x", ",", "y">>,
       selections |-> <<>>, isRandomized |-> TRUE] }

PlanInit ==
    /\ apiKey \in ApiKeys \ {""}
    /\ controls \in [seed : SeedValues, batch : BatchValues, concurrency : {0}]
    /\ instructions = <<>>
    /\ sections \in [1..1 -> PlanSectionInputs] \cup [1..2 -> PlanSectionInputs]
    /\ prompts = <<>>
    /\ busy = FALSE
    /\ error = ""
    /\ warn = <<>>
    /\ lastPayloads = <<>>
    /\ progress = ZeroProgress
    /\ pc = "idle"
    /\ payloads = <<>>
    /\ queue = <<>>
    /\ results = <<>>
    /\ index = 0
    /\ workers = <<>>
    /\ claimLog = <<>>
    /\ counted = <<>>
    /\ jobOutcome = <<>>
    /\ failuresLeft = MaxFailures
    /\ poolIn = NoPool
    /\ seedIn = -1
    /\ resolved = <<>>
    /\ picks = <<>>
    /\ replay = <<>>
    /\ NoCall
    /\ presetName = StoredPreset
    /\ loads = {StoredPreset}
    /\ closure = <<>>
    /\ saved = "none"

PlanNext == onRun

PlanSpec == PlanInit /\ [][PlanNext]_vars

\* ------------------------------------------------------------------------
\* The tokenizer on its own: toList applied to every text of up to MaxText
\* characters, and again to its own result joined by commas
\* ------------------------------------------------------------------------
TextChars == {"a", "A", "b", " ", ",", "\n"}
Texts == UNION {[1..n -> TextChars] : n \in 0..MaxText}

\* arr.join(sep)
RECURSIVE join(_, _)
join(arr, sep) ==
    IF arr = <<>> THEN <<>>
    ELSE IF Len(arr) = 1 THEN arr[1]
    ELSE arr[1] \o sep \o join(Tail(arr), sep)

\* everything but toList's argument and result, at rest
TokenIdle ==
    /\ apiKey = ""
    /\ controls = [seed |-> -1, batch |-> 1, concurrency |-> DefaultConcurrency]
    /\ instructions = <<>>
    /\ sections = <<>>
    /\ prompts = <<>>
    /\ busy = FALSE
    /\ error = ""
    /\ warn = <<>>
    /\ lastPayloads = <<>>
    /\ progress = ZeroProgress
    /\ pc = "idle"
    /\ payloads = <<>>
    /\ queue = <<>>
    /\ results = <<>>
    /\ index = 0
    /\ workers = <<>>
    /\ claimLog = <<>>
    /\ counted = <<>>
    /\ jobOutcome = <<>>
    /\ failuresLeft = MaxFailures
    /\ poolIn = NoPool
    /\ seedIn = -1
    /\ resolved = <<>>
    /\ picks = <<>>
    /\ replay = <<>>
    /\ presetName = StoredPreset
    /\ loads = {StoredPreset}
    /\ closure = <<>>
    /\ saved = "none"

TokenInit ==
    /\ TokenIdle
    /\ textIn \in Texts
    /\ tokens = <<>>
    /\ presetIn = NoPreset
    /\ migrated = <<>>

\* toList(text)
tokenize ==
    /\ tokens = <<>>
    /\ tokens' = <<toList(textIn)>>
    /\ UNCHANGED <<appVars, pickerVars, loadVars, closure, saved, textIn, presetIn,
                   migrated>>

\* toList(toList(text).join(","))
retokenize ==
    /\ Len(tokens) = 1
    /\ tokens' = Append(tokens, toList(join(tokens[1], <<",">>)))
    /\ UNCHANGED <<appVars, pickerVars, loadVars, closure, saved, textIn, presetIn,
                   migrated>>

TokenNext == tokenize \/ retokenize

TokenSpec == TokenInit /\ [][TokenNext]_vars

\* ------------------------------------------------------------------------
\* The preset resolver on its own: resolvePresetSections applied to modern
\* presets, well-formed or not, and to legacy presets
\* ------------------------------------------------------------------------
ModernSectionInputs ==
    { [id |-> <<"c">>, title |-> <<"C">>, list |-> <<"a", ",", " ", "b">>,
       selections |-> << <<"a">> >>, isRandomized |-> FALSE],
      [id |-> <<"s", "1">>, title |-> <<"T">>, list |-> <<>>,
       selections |-> <<>>, isRandomized |-> TRUE],
      [id |-> <<>>, title |-> <<" ", "T", " ">>, list |-> <<"a">>,
       selections |-> <<>>, isRandomized |-> TRUE],
      [list |-> <<"a">>] }

LegacyTitleInputs ==
    { << [k |-> sectionKey(1), v |-> <<" ", "X", " ">>] >>,
      << [k |-> sectionKey(1), v |-> <<" ">>] >>,
      << [k |-> sectionKey(8), v |-> <<"P", "o", "s", "t">>] >> }

LegacyListInputs ==
    { << [k |-> <<"p", "r", "e">>, v |-> <<"o", "n", "e">>] >>,
      << [k |-> <<"P", "r", "e">>, v |-> <<"o", "n", "e">>] >>,
      << [k |-> <<"x">>, v |-> <<"t", "w", "o">>] >>,
      << [k |-> sectionKey(1), v |-> <<"t", "h", "r", "e", "e">>] >>,
      << [k |-> <<"p", "r", "e">>, v |-> <<>>],
         [k |-> sectionKey(1), v |-> <<"t", "h", "r", "e", "e">>] >>,
      << [k |-> <<"p", "r", "e">>, v |-> <<"o", "n", "e">>],
         [k |-> <<"P", "r", "e">>, v |-> <<"u", "n", "o">>] >>,
      << [k |-> <<"p", "o", "s", "t">>, v |-> <<"e", "i", "g", "h", "t">>],
         [k |-> <<"L", "e", "n", "s">>, v |-> <<"s", "e", "v", "e", "n">>] >> }

PresetInputs ==
    LET bare == {[instructions |-> <<"i">>, defaults |-> <<>>]}
        modern == {withField(p, "sections", x) :
                      p \in bare,
                      x \in [1..1 -> ModernSectionInputs]
                              \cup [1..2 -> ModernSectionInputs]}
        noSections == bare \cup {withField(p, "sections", <<>>) : p \in bare}
        titled == noSections \cup
            {withField(p, "sectionTitles", t) :
                p \in noSections, t \in LegacyTitleInputs}
        legacy == titled \cup
            {withField(p, "lists", l) : p \in titled, l \in LegacyListInputs}
    IN  modern \cup legacy

ResolveInit ==
    /\ TokenIdle
    /\ textIn = <<>>
    /\ tokens = <<>>
    /\ presetIn \in PresetInputs
    /\ migrated = <<>>

\* resolvePresetSections(preset)
resolvePreset ==
    /\ migrated = <<>>
    /\ migrated' = <<resolvePresetSections(presetIn)>>
    /\ UNCHANGED <<appVars, pickerVars, loadVars, closure, saved, textIn, tokens,
                   presetIn>>

ResolveNext == resolvePreset

ResolveSpec == ResolveInit /\ [][ResolveNext]_vars

\* ------------------------------------------------------------------------
\* Properties
\* ------------------------------------------------------------------------
TypeOK ==
    /\ pc \in {"idle", "saving", "dispatching", "returned"}
    /\ busy \in BOOLEAN
    /\ apiKey \in ApiKeys
    /\ index \in 0..MaxBatch
    /\ failuresLeft \in 0..MaxFailures
    /\ Len(workers) <= MaxWorkers
    /\ \A w \in DOMAIN workers :
          workers[w].phase \in {"fetch", "sleep", "settled", "done"}
    /\ \A i \in DOMAIN jobOutcome : jobOutcome[i] \in {"pending", "ok", "failed"}

Running == pc = "dispatching"
Finished == pc = "returned"
InRun == Running \/ Finished

\* worker w has claimed a job and has not yet recorded its result
Holding(w) == workers[w].phase # "done"
InFlight == Cardinality({w \in DOMAIN workers : Holding(w)})

RECURSIVE SumSeq(_)
SumSeq(q) == IF q = <<>> THEN 0 ELSE Head(q) + SumSeq(Tail(q))

\* the jobs whose terminal outcome has been recorded by their worker
RecordedAs(outcome) ==
    {i \in DOMAIN jobOutcome : jobOutcome[i] = outcome /\ counted[i] > 0}

\* C1: a job whose request failed on every attempt ends with the empty
\* string at its output position and is counted in `fail`, not in `ok`: at
\* every moment of a run, fail is the number of recorded failed jobs and ok
\* the number of recorded successful ones.
C1_FailedJobCountedAsFailed ==
    InRun =>
      /\ \A i \in RecordedAs("failed") : results[i] = <<>>
      /\ progress.fail = Cardinality(RecordedAs("failed"))
      /\ progress.ok = Cardinality(RecordedAs("ok"))

\* C2: a response whose status is neither ok nor 429 nor 5xx is terminal:
\* the job that received it has issued exactly one request, takes no backoff
\* sleep and makes no further attempt.
C2_TerminalStatusNotRetried ==
    Running =>
      \A w \in DOMAIN workers :
        workers[w].lastErr = "terminal" =>
          /\ workers[w].phase = "settled"
          /\ workers[w].sent = 1
          /\ workers[w].sleeps = 0

\* C3: after a full run over N payloads, total = N, done = N and
\* ok + fail = N, whatever the interleaving and the outcomes.
C3_FullRunAccounting ==
    Finished =>
      /\ progress.total = Len(payloads)
      /\ progress.done = Len(payloads)
      /\ progress.ok + progress.fail = Len(payloads)

C3_Witness ==
    /\ Finished
    /\ Len(payloads) >= 2
    /\ \E i \in DOMAIN jobOutcome : jobOutcome[i] = "failed"
    /\ \E i \in DOMAIN jobOutcome : jobOutcome[i] = "ok"

\* C4: in every state ok + fail = done and done <= total, no job is counted
\* twice and done is the number of jobs counted; during a run no counter
\* decreases, the progress changes only when a job is counted, and counting
\* a job adds 1 to done and 1 to exactly one of ok and fail.
C4_State ==
    /\ progress.ok + progress.fail = progress.done
    /\ progress.done <= progress.total
    /\ InRun => /\ \A i \in DOMAIN counted : counted[i] <= 1
                /\ progress.done = SumSeq(counted)

C4_Step ==
    Running =>
      /\ progress'.total = progress.total
      /\ progress'.done >= progress.done
      /\ progress'.ok >= progress.ok
      /\ progress'.fail >= progress.fail
      /\ progress' # progress =>
            \E i \in DOMAIN counted : counted'[i] = counted[i] + 1
      /\ counted' # counted =>
            /\ progress'.done = progress.done + 1
            /\ \/ progress'.ok = progress.ok + 1 /\ progress'.fail = progress.fail
               \/ progress'.ok = progress.ok /\ progress'.fail = progress.fail + 1

C4_ProgressCounters == []C4_State /\ [][C4_Step]_vars

C4_Witness ==
    /\ Running
    /\ progress.done = 1
    /\ progress.total = 2
    /\ InFlight = 1

\* C5: the sequence a run returns is as long as the payload sequence, and
\* its i-th entry is the content returned for the request built from the
\* i-th payload (the empty string when that job failed).
C5_PositionalOutput ==
    Finished =>
      /\ Len(prompts) = Len(payloads)
      /\ \A i \in DOMAIN payloads :
            prompts[i] =
              IF jobOutcome[i] = "ok"
              THEN contentOf(buildLLMMessages(sections, instructions, payloads[i]))
              ELSE <<>>

C5_Witness ==
    /\ Finished
    /\ Len(payloads) = 2
    /\ Len(workers) >= 2
    /\ payloads[1] # payloads[2]
    /\ prompts[1] # <<>>
    /\ prompts[2] # <<>>

\* C6: the cursor hands every job index to exactly one worker: the indices
\* claimed so far are exactly 0 .. index-1, each once and in increasing
\* order, none is >= N, no two workers hold the same index, and when the run
\* returns every index in 0 .. N-1 has been claimed.
C6_CursorAssignsEachJobOnce ==
    InRun =>
      /\ \A a \in DOMAIN claimLog : claimLog[a] \in 0..(Len(queue) - 1)
      /\ \A a, b \in DOMAIN claimLog : a < b => claimLog[a] < claimLog[b]
      /\ {claimLog[a] : a \in DOMAIN claimLog} = 0..(index - 1)
      /\ \A v, w \in DOMAIN workers :
            (v # w /\ Holding(v) /\ Holding(w)) =>
               workers[v].myIndex # workers[w].myIndex
      /\ \A w \in DOMAIN workers :
            Holding(w) => \E a \in DOMAIN claimLog : claimLog[a] = workers[w].myIndex
      /\ Finished => index = Len(queue)

C6_Witness ==
    /\ Running
    /\ Len(workers) = 1
    /\ claimLog = <<0, 1>>
    /\ workers[1].myIndex = 1

\* C7: for any requested concurrency, the jobs in flight at the same time
\* never exceed min(clamp(concurrency, 1, 10), N).
clamp(x, lo, hi) == Max(lo, Min(x, hi))
C7_InFlightWithinClamp ==
    Running =>
      InFlight <= Min(clamp(controls.concurrency, 1, MaxWorkers), Len(queue))

\* C8: a job that gets k failures (k < maxRetries), the last of them a
\* retryable status, and then a success has made k + 1 attempts and taken k
\* sleeps; the i-th sleep of any job lasts baseDelay * 2^(i-1) plus a jitter
\* in [0, 200); and when its worker resumes, the job's content is recorded
\* and ok grows by exactly 1.
SucceededAfterRetries(w) ==
    /\ workers[w].phase = "settled"
    /\ ~workers[w].ret.isNull
    /\ workers[w].lastErr \in {"none", "retryable"}

C8_State ==
    Running =>
      \A w \in DOMAIN workers :
        /\ workers[w].phase = "sleep" =>
              (workers[w].delay - baseDelay * Pow2(workers[w].sleeps - 1))
                 \in 0..(JitterWindow - 1)
        /\ SucceededAfterRetries(w) =>
              /\ workers[w].attempt < maxRetries
              /\ workers[w].sent = workers[w].attempt + 1
              /\ workers[w].sleeps = workers[w].attempt

C8_Step ==
    Running =>
      \A w \in DOMAIN workers :
        (SucceededAfterRetries(w) /\ workers'[w] # workers[w]) =>
           /\ progress'.ok = progress.ok + 1
           /\ progress'.fail = progress.fail
           /\ counted[workers[w].myIndex + 1] = 0
           /\ counted'[workers[w].myIndex + 1] = 1
           /\ results'[workers[w].myIndex + 1] = workers[w].ret.text

C8_RetryThenSuccess == []C8_State /\ [][C8_Step]_vars

C8_Witness ==
    /\ Running
    /\ \E w \in DOMAIN workers :
          /\ SucceededAfterRetries(w)
          /\ workers[w].attempt = 2
          /\ workers[w].lastErr = "retryable"
          /\ workers[w].sent = 3
          /\ workers[w].sleeps = 2

\* C9: every job issues at least 1 and at most maxRetries requests; a
\* success ends the loop at once (the requests are the failures plus one);
\* sleeps are taken between attempts only, never after the last failure.
C9_AttemptsBounded ==
    Running =>
      \A w \in DOMAIN workers :
        Holding(w) =>
          /\ workers[w].sent \in 1..maxRetries
          /\ workers[w].phase = "sleep" => workers[w].attempt < maxRetries
          /\ workers[w].sleeps =
                IF workers[w].phase = "sleep" THEN workers[w].sent
                ELSE workers[w].sent - 1
          /\ (workers[w].phase = "settled" /\ ~workers[w].ret.isNull) =>
                workers[w].sent = workers[w].attempt + 1
          /\ (workers[w].phase = "settled" /\ workers[w].ret.isNull) =>
                /\ workers[w].sent = maxRetries
                /\ workers[w].attempt = maxRetries

C9_Witness ==
    /\ Running
    /\ \E w \in DOMAIN workers :
          /\ workers[w].phase = "settled"
          /\ workers[w].ret.isNull
          /\ workers[w].sent = maxRetries
          /\ workers[w].sleeps = maxRetries - 1

\* C10: when every request settles and every sleep ends, a dispatch run
\* eventually returns, and when it has returned every job has been claimed,
\* has reached its terminal outcome and has been counted (done = N); none is
\* still in flight.
C10_ReturnedAfterAllJobs ==
    Finished =>
      /\ progress.done = Len(payloads)
      /\ index = Len(queue)
      /\ Len(claimLog) = Len(payloads)
      /\ \A w \in DOMAIN workers : ~Holding(w)
      /\ \A i \in DOMAIN jobOutcome : jobOutcome[i] # "pending" /\ counted[i] = 1

C10_RunTerminates == (Running ~> Finished) /\ []C10_ReturnedAfterAllJobs

C10_Witness ==
    /\ Finished
    /\ Len(payloads) = 2
    /\ Len(workers) > Len(payloads)
    /\ \E i \in DOMAIN jobOutcome : jobOutcome[i] = "failed"
    /\ \A i \in DOMAIN prompts : prompts[i] = <<>> <=> jobOutcome[i] = "failed"

\* C11: the failure of a job neither cancels nor alters another job.  When
\* the worker of a failed job resumes, it claims the next unclaimed index if
\* there is one, no other worker is touched and no other output slot
\* changes; and when the run has returned every job has been processed and
\* every successful job's slot holds its own content, whatever failed.
C11_State ==
    Finished =>
      \A i \in DOMAIN jobOutcome :
        /\ counted[i] = 1
        /\ jobOutcome[i] = "ok" =>
              prompts[i] = contentOf(buildLLMMessages(sections, instructions,
                                                      payloads[i]))

C11_Step ==
    Running =>
      \A w \in DOMAIN workers :
        (workers[w].phase = "settled" /\ workers[w].ret.isNull
           /\ workers'[w] # workers[w]) =>
          /\ \A v \in DOMAIN workers : v # w => workers'[v] = workers[v]
          /\ \A i \in DOMAIN results :
                i # workers[w].myIndex + 1 => results'[i] = results[i]
          /\ index < Len(queue) =>
                /\ workers'[w].phase = "fetch"
                /\ workers'[w].myIndex = index
                /\ index' = index + 1
          /\ index >= Len(queue) => workers'[w].phase = "done"

C11_FailureIsIsolated == []C11_State /\ [][C11_Step]_vars

C11_Witness ==
    /\ Finished
    /\ Len(workers) = 1
    /\ jobOutcome = <<"failed", "ok">>
    /\ prompts[1] = <<>>
    /\ prompts[2] # <<>>

\* C12: a request that hits its timeout is handled like a retryable
\* failure: the step that stores the timeout in lastErr consumes one attempt
\* and issues no request; when attempts remain the job sleeps for
\* baseDelay * 2^(attempt-1) plus a jitter in [0, 200), and otherwise the job
\* has failed.
TimedOut(w) ==
    /\ workers[w].phase = "fetch"
    /\ workers'[w] # workers[w]
    /\ workers'[w].lastErr = "timeout"
    /\ ~(workers'[w].phase = "settled" /\ ~workers'[w].ret.isNull)

C12_Step ==
    Running =>
      \A w \in DOMAIN workers :
        TimedOut(w) =>
          /\ workers'[w].attempt = workers[w].attempt + 1
          /\ workers'[w].sent = workers[w].sent
          /\ workers'[w].myIndex = workers[w].myIndex
          /\ IF workers'[w].attempt < maxRetries
             THEN /\ workers'[w].phase = "sleep"
                  /\ workers'[w].sleeps = workers[w].sleeps + 1
                  /\ (workers'[w].delay
                        - baseDelay * Pow2(workers'[w].attempt - 1))
                       \in 0..(JitterWindow - 1)
                  /\ jobOutcome'[workers[w].myIndex + 1] = "pending"
             ELSE /\ workers'[w].phase = "settled"
                  /\ workers'[w].ret.isNull
                  /\ workers'[w].sleeps = workers[w].sleeps
                  /\ jobOutcome'[workers[w].myIndex + 1] = "failed"

C12_TimeoutIsRetryable == [][C12_Step]_vars

\* a job whose three attempts all timed out, and with that failed
C12_Witness ==
    /\ Running
    /\ \E w \in DOMAIN workers :
          /\ workers[w].phase = "settled"
          /\ workers[w].ret.isNull
          /\ workers[w].lastErr = "timeout"
          /\ workers[w].sleeps = 2

\* C13: a run whose batch size is below 1 is rejected before any draw: it
\* produces no payload, issues no request and reports an error.
Started == pc \in {"saving", "dispatching", "returned"}
C14_State ==
    error # "" =>
      /\ pc = "idle"
      /\ ~busy
      /\ progress = ZeroProgress
      /\ payloads = <<>>
      /\ queue = <<>>
      /\ workers = <<>>

C14_Step ==
    (apiKey = "" /\ uiVars' = uiVars) =>
      /\ error' = "Enter your OpenAI API key to generate prompts."
      /\ prompts' = prompts
      /\ lastPayloads' = lastPayloads
      /\ progress' = ZeroProgress
      /\ payloads' = <<>>
      /\ queue' = <<>>
      /\ workers' = <<>>
      /\ pc' = "idle"
      /\ busy' = FALSE

C14_NoKeyNoRun == []C14_State /\ [][C14_Step]_vars

C14_Witness ==
    /\ apiKey = ""
    /\ error = "Enter your OpenAI API key to generate prompts."
    /\ prompts # <<>>
    /\ sections # <<>>
    /\ pc = "idle"

\* C15: sampling never sees a ghost selection.  After every edit, load and
\* run start, every selection of a section is, trimmed and in lower case, a
\* token of the section's list, so is every candidate the section resolves
\* to, and every value of a planned payload is a token of the list of a
\* section with that title.
Canonical(section) == {toLowerCase(t) : t \in Range(toList(section.list))}
PoolOf(section) ==
    [label |-> section.title, listText |-> section.list,
     selections |-> section.selections,
     isRandomized |-> section.isRandomized]

HasSelections(pool) ==
    "selections" \in DOMAIN pool /\ Len(pool.selections) > 0

\* the index of the first entry of arr that str equals ignoring case, once
\* the entry is trimmed; 0 if there is none
firstIndex(arr, str) ==
    LET same == {i \in DOMAIN arr :
                    toLowerCase(trim(arr[i])) = toLowerCase(str)}
    IN  IF same = {} THEN 0 ELSE CHOOSE i \in same : \A j \in same : i <= j

\* candidates are exactly the entries of arr: trimmed, blanks dropped, the
\* first spelling of each in the order of first appearance
IsUniverseOf(candidates, arr) ==
    /\ \A j \in DOMAIN candidates :
          /\ firstIndex(arr, candidates[j]) # 0
          /\ candidates[j] = trim(arr[firstIndex(arr, candidates[j])])
    /\ \A j, k \in DOMAIN candidates :
          j < k => firstIndex(arr, candidates[j]) < firstIndex(arr, candidates[k])
    /\ \A i \in DOMAIN arr :
          trim(arr[i]) # <<>> =>
              \E j \in DOMAIN candidates :
                  toLowerCase(candidates[j]) = toLowerCase(trim(arr[i]))

PickedFrom(candidates) ==
    \A b \in DOMAIN picks :
        IF candidates = <<>> THEN picks[b] = <<>>
        ELSE picks[b] \in Range(candidates)

C16_SelectionsReplaceList ==
    \A candidates \in Range(resolved) :
        /\ PickedFrom(candidates)
        /\ HasSelections(poolIn) =>
               IsUniverseOf(candidates, poolIn.selections)
        /\ ~HasSelections(poolIn) /\ "listArray" \in DOMAIN poolIn =>
               IsUniverseOf(candidates, poolIn.listArray)
        /\ /\ ~HasSelections(poolIn)
           /\ "listArray" \notin DOMAIN poolIn
           /\ "listText" \in DOMAIN poolIn
           => candidates = toList(poolIn.listText)

\* all the picks are made from a pool whose list has items that are not
\* selected
C16_Witness ==
    /\ HasSelections(poolIn)
    /\ "listText" \in DOMAIN poolIn
    /\ \E t \in Range(toList(poolIn.listText)) :
          firstIndex(poolIn.selections, t) = 0
    /\ resolved # <<>>
    /\ Len(resolved[1]) = 2
    /\ Len(picks) = MaxPicks
    /\ poolIn.isRandomized

\* ------------------------------------------------------------------------
\* C17: whatever the pool has (a list text or none, a pre-tokenized array or
\* none, selections or none), resolving it gives a sequence of candidates
\* that holds no empty or white-space-only string and no two strings that
\* are equal ignoring case
\* ------------------------------------------------------------------------
C17_CandidatesUniqueNonEmpty ==
    \A candidates \in Range(resolved) :
          /\ DOMAIN candidates = 1..Len(candidates)
          /\ \A j \in DOMAIN candidates : trim(candidates[j]) # <<>>
          /\ \A j, k \in DOMAIN candidates :
                j # k => toLowerCase(candidates[j]) # toLowerCase(candidates[k])

\* a pre-tokenized array with a blank entry and two entries equal ignoring
\* case has been resolved
C17_Witness ==
    /\ ~HasSelections(poolIn)
    /\ "listArray" \in DOMAIN poolIn
    /\ \E i \in DOMAIN poolIn.listArray : trim(poolIn.listArray[i]) = <<>>
    /\ \E i, j \in DOMAIN poolIn.listArray :
          /\ i # j
          /\ trim(poolIn.listArray[i]) # <<>>
          /\ toLowerCase(trim(poolIn.listArray[i]))
                = toLowerCase(trim(poolIn.listArray[j]))
    /\ resolved # <<>>
    /\ Len(resolved[1]) = 2

\* ------------------------------------------------------------------------
\* C19: for a pool that is not randomized and has N >= 1 candidates, the pick
\* for batch index b is candidates[b mod N] under every seed, -1 included,
\* so that N or more picks hold every candidate
\* ------------------------------------------------------------------------
C19_NonRandomizedCycles ==
    \A candidates \in Range(resolved) :
        ~poolIn.isRandomized /\ Len(candidates) >= 1 =>
            /\ \A i \in DOMAIN picks :
                  picks[i] = candidates[((i - 1) % Len(candidates)) + 1]
            /\ Len(picks) >= Len(candidates) =>
                  Range(candidates) \subseteq Range(picks)

\* three candidates picked for the batch indices 0..4 under a seed that is
\* not -1: candidates[0, 1, 2, 0, 1]
C19_Witness ==
    /\ ~poolIn.isRandomized
    /\ seedIn # -1
    /\ resolved # <<>>
    /\ Len(resolved[1]) = 3
    /\ Len(picks) = 5
    /\ picks = <<resolved[1][1], resolved[1][2], resolved[1][3],
                 resolved[1][1], resolved[1][2]>>

\* ------------------------------------------------------------------------
\* C20: under a seed that is not -1, picking again for the same seed, batch
\* index and identity gives the value picked the first time, whatever
\* Math.random() returns meanwhile: the two plans of a pool are equal
\* ------------------------------------------------------------------------
C20_SeededPicksRepeat ==
    seedIn # -1 => \A i \in DOMAIN replay : replay[i] = picks[i]

\* a randomized pool with several candidates has been planned twice under a
\* seed, and the seeded generator did not give the same candidate throughout
C20_Witness ==
    /\ seedIn # -1
    /\ poolIn.isRandomized
    /\ resolved # <<>>
    /\ Len(resolved[1]) >= 2
    /\ Len(picks) = MaxPicks
    /\ Len(replay) = MaxPicks
    /\ \E i, j \in DOMAIN picks : picks[i] # picks[j]

\* ------------------------------------------------------------------------
\* C18: the plan of a run has one payload per batch item, as many as the
\* batch size asked for (a size of 1 or more); a payload has one entry per
\* label, the entry of a titled section holds one of its candidates, and no
\* entry has a label or a value that is blank after trimming: an untitled
\* section and a section whose pick is blank have no entry
\* ------------------------------------------------------------------------
\* the titled sections that have a value to give
Contributing(secs) ==
    {n \in DOMAIN secs : /\ trim(secs[n].title) # <<>>
                         /\ getCandidates(PoolOf(secs[n])) # <<>>}

C18_OnePayloadPerItem ==
    Started =>
      /\ controls.batch >= 1 => Len(payloads) = controls.batch
      /\ \A i \in DOMAIN payloads :
            LET payload == payloads[i]
            IN  /\ \A e \in DOMAIN payload :
                      /\ trim(payload[e].k) # <<>>
                      /\ trim(payload[e].v) # <<>>
                      /\ \E n \in Contributing(sections) :
                            /\ sections[n].title = payload[e].k
                            /\ payload[e].v
                                 \in Range(getCandidates(PoolOf(sections[n])))
                /\ \A e, f \in DOMAIN payload :
                      e # f => payload[e].k # payload[f].k
                /\ \A n \in Contributing(sections) :
                      \E e \in DOMAIN payload : payload[e].k = sections[n].title

\* a plan of several payloads from an untitled section and a titled one
C18_Witness ==
    /\ Started
    /\ Len(payloads) = 2
    /\ controls.batch = 2
    /\ Len(sections) = 2
    /\ trim(sections[1].title) = <<>>
    /\ getCandidates(PoolOf(sections[1])) # <<>>
    /\ Len(payloads[1]) = 1
    /\ payloads[1] # payloads[2]

\* ------------------------------------------------------------------------
\* C21: a pick is the empty string exactly when the pool has no candidates;
\* otherwise the index a randomized pool draws is within 0..N-1, whatever
\* the generator or Math.random() gives, and the pick is one of the
\* candidates
\* ------------------------------------------------------------------------
C21_PickIsACandidate ==
    \A candidates \in Range(resolved) :
        /\ \A i \in DOMAIN picks :
              /\ picks[i] = <<>> <=> candidates = <<>>
              /\ candidates # <<>> => picks[i] \in Range(candidates)
        /\ poolIn.isRandomized /\ candidates # <<>> =>
              \A i \in 1..MaxPicks, rnd \in 0..(RandomDen - 1) :
                  makeSectionRng(seedIn, i - 1, poolIn.label, rnd,
                                 Len(candidates)) \in 0..(Len(candidates) - 1)

\* the generator gave a value above 0.9999 and the last of three candidates
\* was picked
C21_Witness ==
    /\ poolIn.isRandomized
    /\ seedIn # -1
    /\ mulberry32(addInt(hash32(poolIn.label), seedIn))[1] = Half - 1
    /\ resolved # <<>>
    /\ Len(resolved[1]) = 3
    /\ picks # <<>>
    /\ picks[1] = resolved[1][3]

\* ------------------------------------------------------------------------
\* C22: toList splits the text at every newline and comma, and returns the
\* pieces trimmed, without the empty ones and without those equal ignoring
\* case to an earlier one, in the order and the spelling they first appear
\* in; a text that is empty or white space gives no token; and tokenizing
\* the tokens joined by commas gives the same tokens
\* ------------------------------------------------------------------------
\* the pieces of str between its separators, from the left
IsSplitOf(pieces, str) ==
    /\ Len(pieces) = 1 + Cardinality({i \in DOMAIN str : IsSeparator(str[i])})
    /\ \A p \in DOMAIN pieces :
          \A i \in DOMAIN pieces[p] : ~IsSeparator(pieces[p][i])
    /\ join(pieces, <<",">>)
         = [i \in DOMAIN str |-> IF IsSeparator(str[i]) THEN "," ELSE str[i]]

C22_TokenizeContract ==
    /\ \A t \in Range(tokens) :
          /\ \A j \in DOMAIN t :
                /\ t[j] # <<>>
                /\ ~IsSpace(t[j][1]) /\ ~IsSpace(t[j][Len(t[j])])
                /\ \A i \in DOMAIN t[j] : ~IsSeparator(t[j][i])
          /\ \A j, k \in DOMAIN t :
                j # k => toLowerCase(t[j]) # toLowerCase(t[k])
    /\ tokens # <<>> =>
          /\ \E pieces \in {split(textIn)} :
                /\ IsSplitOf(pieces, textIn)
                /\ IsUniverseOf(tokens[1], pieces)
          /\ (\A i \in DOMAIN textIn : IsSpace(textIn[i])) => tokens[1] = <<>>
    /\ Len(tokens) = 2 => tokens[2] = tokens[1]

\* a text with a newline, a comma, a blank piece and two pieces equal
\* ignoring case was tokenized twice
C22_Witness ==
    /\ Len(tokens) = 2
    /\ textIn = <<"A", "\n", ",", "a">>
    /\ tokens[1] = << <<"A">> >>

\* ------------------------------------------------------------------------
\* C25: a modern preset whose sections are well-formed (an id, a title that
\* is trimmed and not blank, a list, selections, a boolean isRandomized) is
\* resolved to those sections, in number, in order and field by field
\* ------------------------------------------------------------------------
IsModern(preset) == "sections" \in DOMAIN preset /\ Len(preset.sections) > 0

WellFormed(section) ==
    /\ DOMAIN section = {"id", "title", "list", "selections", "isRandomized"}
    /\ section.id # <<>>
    /\ section.title # <<>>
    /\ trim(section.title) = section.title
    /\ section.isRandomized \in BOOLEAN

C25_ModernSectionsUnchanged ==
    \A out \in Range(migrated) :
        IsModern(presetIn) =>
            /\ Len(out) = Len(presetIn.sections)
            /\ \A n \in DOMAIN out :
                  WellFormed(presetIn.sections[n]) =>
                      out[n] = presetIn.sections[n]

\* two different well-formed sections were resolved
C25_Witness ==
    /\ IsModern(presetIn)
    /\ Len(presetIn.sections) = 2
    /\ \A n \in DOMAIN presetIn.sections : WellFormed(presetIn.sections[n])
    /\ presetIn.sections[1] # presetIn.sections[2]
    /\ presetIn.sections[1].selections # <<>>
    /\ migrated = <<presetIn.sections>>

\* ------------------------------------------------------------------------
\* C26: a preset without sections is resolved to the eight legacy sections
\* section1..section8 in that order, each under its trimmed configured title
\* or else its fallback title, without selections, randomized but for the
\* eighth, and with the list the legacy lists hold under its legacy key,
\* compared ignoring case, or the empty string when they hold none
\* ------------------------------------------------------------------------
\* the value the entries hold last under a key equal to key ignoring case;
\* the empty string if there is none
HeldUnder(entries, key) ==
    LET hits == {i \in DOMAIN entries :
                    toLowerCase(entries[i].k) = toLowerCase(key)}
    IN  IF hits = {} THEN <<>>
        ELSE entries[CHOOSE i \in hits : \A j \in hits : j <= i].v

ConfiguredTitle(preset, n) ==
    LET titles == IF "sectionTitles" \in DOMAIN preset
                  THEN preset.sectionTitles ELSE <<>>
        own == {i \in DOMAIN titles : titles[i].k = sectionKey(n)}
    IN  IF own = {} THEN <<>>
        ELSE trim(titles[CHOOSE i \in own : \A j \in own : j <= i].v)

LegacyLists(preset) ==
    IF "lists" \in DOMAIN preset THEN preset.lists ELSE <<>>

LegacyShape(out, preset) ==
    /\ Len(out) = 8
    /\ \A n \in DOMAIN out :
          /\ out[n].id = sectionKey(n)
          /\ out[n].title = IF ConfiguredTitle(preset, n) # <<>>
                            THEN ConfiguredTitle(preset, n)
                            ELSE LEGACY_SECTIONS[n].fallbackTitle
          /\ out[n].selections = <<>>
          /\ out[n].isRandomized = (n # 8)

C26_LegacyListByLegacyKey ==
    \A out \in Range(migrated) :
        ~IsModern(presetIn) =>
            /\ LegacyShape(out, presetIn)
            /\ \A n \in DOMAIN out :
                  out[n].list = HeldUnder(LegacyLists(presetIn),
                                          LEGACY_SECTIONS[n].legacyKey)

\* C26 as amended: the list is the first non-empty one among those the
\* legacy lists hold, compared ignoring case, under the section's legacy
\* key, under its title and under its section key, in that order; the
\* empty string when there is none
C26_LegacyListByCandidateKeys ==
    \A out \in Range(migrated) :
        ~IsModern(presetIn) =>
            /\ LegacyShape(out, presetIn)
            /\ \A n \in DOMAIN out :
                  LET lists == LegacyLists(presetIn)
                      byLegacyKey == HeldUnder(lists, LEGACY_SECTIONS[n].legacyKey)
                      byTitle == HeldUnder(lists, out[n].title)
                      bySectionKey == HeldUnder(lists, sectionKey(n))
                  IN  out[n].list =
                        IF byLegacyKey # <<>> THEN byLegacyKey
                        ELSE IF byTitle # <<>> THEN byTitle
                        ELSE bySectionKey

\* a legacy preset whose lists hold nothing under "pre" was resolved, and
\* its first section has the list held under its section key
C26_Witness ==
    /\ ~IsModern(presetIn)
    /\ migrated # <<>>
    /\ HeldUnder(LegacyLists(presetIn), LEGACY_SECTIONS[1].legacyKey) = <<>>
    /\ migrated[1][1].list = <<"t", "h", "r", "e", "e">>
    /\ migrated[1][1].title = <<"X">>

\* ------------------------------------------------------------------------
\* C23: the batch of a run is read-only: its payloads are those planned at
\* the click, its requests are built from them and from the sections and
\* instructions of the click, and no later step of the run or edit of the
\* instructions, the lists, the controls or the preset changes them
\* ------------------------------------------------------------------------
C23_State ==
    InRun =>
      /\ payloads = lastPayloads
      /\ DOMAIN queue = DOMAIN payloads
      /\ \A i \in DOMAIN queue :
            queue[i] = buildLLMMessages(closure[1].sections,
                                        closure[1].instructions, payloads[i])
      /\ Len(workers) = workerCount(orElse(closure[1].controls.concurrency,
                                           DefaultConcurrency))

C23_Step ==
    pc # "idle" =>
      /\ closure' = closure
      /\ payloads' = payloads
      /\ InRun => queue' = queue

C23_BatchIsReadOnly == [][C23_State /\ C23_State' /\ C23_Step]_vars

\* a run of two jobs has returned after the instructions, the list and the
\* concurrency it started from were all changed
C23_Witness ==
    /\ Finished
    /\ Len(queue) = 2
    /\ instructions # closure[1].instructions
    /\ sections # closure[1].sections
    /\ controls.concurrency # closure[1].controls.concurrency
    /\ closure[1].sections # <<>>
    /\ \A i \in DOMAIN prompts : prompts[i] # <<>>

\* ------------------------------------------------------------------------
\* C24: the ceilings are advisory.  A run whose batch is above 250 or whose
\* concurrency is above 8 carries the matching warning, and only such a run
\* does; it plans one payload per requested item, queues one request per
\* payload, and by the time it returns every job has been claimed once,
\* has issued a request and has its output position filled.
\* ------------------------------------------------------------------------
Requested == Max(1, closure[1].controls.batch)

C24_CeilingsAreAdvisory ==
    pc # "idle" =>
      /\ ("Large batch" \in Range(warn))
            <=> closure[1].controls.batch > 250
      /\ ("High concurrency" \in Range(warn))
            <=> closure[1].controls.concurrency > 8
      /\ Len(payloads) = Requested
      /\ InRun => Len(queue) = Requested
      /\ Finished =>
            /\ Len(prompts) = Requested
            /\ progress.done = Requested
            /\ \A i \in 1..Requested :
                  /\ Cardinality({k \in DOMAIN claimLog : claimLog[k] = i - 1}) = 1
                  /\ jobOutcome[i] \in {"ok", "failed"}
                  /\ jobOutcome[i] = "ok" => prompts[i] # <<>>

\* a run of 251 items has returned with the batch warning, its last
\* job failed
C24_Witness ==
    /\ Finished
    /\ Len(prompts) = 251
    /\ warn = <<"Large batch">>
    /\ jobOutcome[251] = "failed"

\* a run with concurrency 50 has returned with the concurrency warning
C24_WitnessConcurrency ==
    /\ Finished
    /\ closure[1].controls.concurrency = 50
    /\ warn = <<"High concurrency">>
    /\ Len(prompts) = 2

\* ------------------------------------------------------------------------
\* C27: under seed -1 every draw of a randomized pool is the value of
\* Math.random() scaled to the candidates, whatever the batch index and the
\* identity of the pool: the picks of two runs are each made of candidates
\* chosen by the draws alone, and every candidate position a draw can select
\* is selected by some draw.  (That two runs differ "with overwhelming
\* probability" is a statement about the distribution of Math.random(),
\* which a state machine does not carry; what is checked is that nothing
\* but the draw fixes a pick, and that two runs can differ.)
\* ------------------------------------------------------------------------
drawn(cands, rnd) == at(cands, (rnd * Len(cands)) \div RandomDen)

RandomExcludesSelections ==
    \A n \in DOMAIN sections :
        ~(sections[n].isRandomized /\ sections[n].selections # <<>>)

OthersUntouched(n) ==
    /\ DOMAIN sections' = DOMAIN sections
    /\ \A m \in DOMAIN sections \ {n} : sections'[m] = sections[m]
    /\ sections'[n].list = sections[n].list

ToggleStep ==
    \A n \in DOMAIN sections, k \in 1..MaxText :
      toggle(n, k) =>
        LET opt == toList(sections[n].list)[k]
            selected == sections[n].selections
        IN  /\ OthersUntouched(n)
            /\ IF opt \in Range(selected)
               THEN /\ sections'[n].selections =
                         SelectSeq(selected, LAMBDA o : o # opt)
                    /\ sections'[n].isRandomized = sections[n].isRandomized
               ELSE /\ sections'[n].selections = Append(selected, opt)
                    /\ ~sections'[n].isRandomized

RandomStep ==
    \A n \in DOMAIN sections :
      toggleRandom(n) =>
        /\ OthersUntouched(n)
        /\ sections'[n].isRandomized = ~sections[n].isRandomized
        /\ sections'[n].selections =
              IF sections[n].isRandomized THEN sections[n].selections ELSE <<>>

C30_RandomOnMeansNothingSelected ==
    [][/\ RandomExcludesSelections
       /\ RandomExcludesSelections'
       /\ ToggleStep
       /\ RandomStep]_vars

\* one added section has two options selected, another has had its only
\* selection removed again and is left with random off and nothing selected
C30_Witness ==
    \E n, m \in DOMAIN sections :
        /\ ~sections[n].isRandomized
        /\ Len(sections[n].selections) = 2
        /\ ~sections[m].isRandomized
        /\ sections[m].list # <<>>
        /\ sections[m].selections = <<>>

\* ------------------------------------------------------------------------
\* C28: once every preset load has settled, the instructions, the sections
\* and the controls are those of the preset selected last, in whatever
\* order the loads completed
\* ------------------------------------------------------------------------
Shows(name) ==
    LET presetData == PresetFiles[name]
    IN  /\ instructions = presetData.instructions
        /\ sections = boxEditorEffect(resolvePresetSections(presetData))
        /\ controls.batch = defaultOr(presetData.defaults, "batch", 1)
        /\ controls.concurrency =
              defaultOr(presetData.defaults, "concurrency", DefaultConcurrency)

C28_LastSelectedPresetShown == loads = {} => Shows(presetName)

\* ------------------------------------------------------------------------
\* C29: at most one run is in flight.  busy is true exactly while a run is
\* between its click and its end; Send starts a run only from busy false,
\* and a run that goes on keeps the batch it started with; busy is false
\* again as soon as the run has ended, with its results stored or, on a
\* missing API key, with the error set and nothing else of the run begun.
\* ------------------------------------------------------------------------
RunInFlight == pc \in {"saving", "dispatching"}

C29_Busy ==
    /\ busy <=> RunInFlight
    /\ RunInFlight => Len(closure) = 1

C29_Step ==
    /\ (RunInFlight' /\ ~RunInFlight) => (~busy /\ busy' /\ pc = "idle")
    /\ (RunInFlight /\ RunInFlight') =>
          (busy' /\ closure' = closure /\ payloads' = payloads)
    /\ (RunInFlight /\ ~RunInFlight') => (~busy' /\ prompts' = results)
    /\ (onRun /\ keyMissing(apiKey)) =>
          (~busy' /\ ~RunInFlight' /\ error' # "" /\ prompts' = prompts)

C29_OneRunInFlight == [][C29_Busy /\ C29_Busy' /\ C29_Step]_vars

\* a run has succeeded, the key was cleared, and the next click failed on the
\* missing key: busy is false and the earlier results are still shown
C29_Witness ==
    /\ ~busy
    /\ pc = "idle"
    /\ error = "Enter your OpenAI API key to generate prompts."
    /\ Len(prompts) = 2
    /\ \A i \in DOMAIN prompts : prompts[i] # <<>>

\* ------------------------------------------------------------------------
\* C31: a payload has one entry per title; the entry of a title that several
\* sections carry holds the pick of the last of them, in section order,
\* whose pick is not blank, and every title with such a section has an
\* entry.  (Under seed -1 the pick of a randomized section is a draw the
\* state does not keep: the entry is then one of that section's candidates.)
\* ------------------------------------------------------------------------
LastFor(title) ==
    LET holders == {n \in Contributing(sections) : sections[n].title = title}
    IN  CHOOSE n \in holders : \A m \in holders : m <= n

C31_LastSectionOfATitleWins ==
    Started =>
      \A i \in DOMAIN payloads :
        LET payload == payloads[i]
        IN  /\ \A e, f \in DOMAIN payload :
                  e # f => payload[e].k # payload[f].k
            /\ \A n \in Contributing(sections) :
                  \E e \in DOMAIN payload : payload[e].k = sections[n].title
            /\ \A e \in DOMAIN payload :
                  /\ \E n \in Contributing(sections) :
                        sections[n].title = payload[e].k
                  /\ LET section == sections[LastFor(payload[e].k)]
                     IN  IF section.isRandomized /\ controls.seed = -1
                         THEN payload[e].v
                                \in Range(getCandidates(PoolOf(section)))
                         ELSE payload[e].v =
                                pickOneValue(PoolOf(section), controls.seed,
                                             i - 1, section.id, 0)

\* two sections carry the title T and both have a pick: the payload has the
\* one entry T, with the pick of the second section
C31_Witness ==
    /\ Started
    /\ Len(sections) = 2
    /\ sections[1].title = sections[2].title
    /\ Contributing(sections) = {1, 2}
    /\ sections[1].list # sections[2].list
    /\ Len(payloads) >= 1
    /\ Len(payloads[1]) = 1
    /\ payloads[1][1].v \in Range(getCandidates(PoolOf(sections[2])))
    /\ payloads[1][1].v \notin Range(getCandidates(PoolOf(sections[1])))

\* two sections carry the title U and only the first has a pick: the entry
\* holds the pick of the first
C31_WitnessBlankLast ==
    /\ Started
    /\ Len(sections) = 2
    /\ sections[1].title = sections[2].title
    /\ Contributing(sections) = {1}
    /\ Len(payloads) >= 1
    /\ Len(payloads[1]) = 1

\* ------------------------------------------------------------------------
\* C32: under a seed other than -1 the value a section contributes at a
\* batch index is a function of its own list, selections, randomize flag
\* and id, of the seed and of the batch index: the same whatever the other
\* sections, the section's position and title, and the batch size are
\* ------------------------------------------------------------------------
ownPick(section, seedBase, batchIndex) ==
    pickOneValue([label |-> <<>>, listText |-> section.list,
                  selections |-> section.selections,
                  isRandomized |-> section.isRandomized],
                 seedBase, batchIndex, section.id, 0)

C32_PickDependsOnOwnSectionOnly ==
    (Started /\ controls.seed # -1) =>
      \A i \in DOMAIN payloads :
        \A n \in Contributing(sections) :
          n = LastFor(sections[n].title) =>
            \E e \in DOMAIN payloads[i] :
              /\ payloads[i][e].k = sections[n].title
              /\ payloads[i][e].v = ownPick(sections[n], controls.seed, i - 1)

\* a seeded plan of two payloads from two sections with different titles,
\* the second randomized with several candidates
C32_Witness ==
    /\ Started
    /\ controls.seed # -1
    /\ Len(payloads) = 2
    /\ Len(sections) = 2
    /\ sections[1].title # sections[2].title
    /\ sections[2].isRandomized
    /\ Len(getCandidates(PoolOf(sections[2]))) >= 2
    /\ Len(payloads[1]) = 2
    /\ Len(payloads[2]) = 2

\* ------------------------------------------------------------------------
\* C33: for a randomized pool and seeds other than -1, the pick for seed s
\* and batch index i + 1 is the pick for seed s + 1 and batch index i: the
\* plan under s + 1 is the plan under s moved up by one batch item
\* ------------------------------------------------------------------------
C33_NextSeedShiftsThePlan ==
    \A i \in DOMAIN replay :
        (i + 1) \in DOMAIN picks => replay[i] = picks[i + 1]

\* both plans of a pool with several candidates are complete, and the plan
\* under s is neither constant nor equal to the plan under s + 1
C33_Witness ==
    /\ Len(picks) = MaxPicks
    /\ Len(replay) = MaxPicks
    /\ \E i, j \in DOMAIN picks : picks[i] # picks[j]
    /\ replay # picks

\* ------------------------------------------------------------------------
\* C34: a run builds all its payloads, then saves the preset, then
\* dispatches.  While the save is pending the payloads are complete and
\* nothing is queued, claimed or sent; the dispatch starts in the step in
\* which the save resolves, whether the API took the preset or not, and
\* queues the requests of exactly the payloads built before the save
\* ------------------------------------------------------------------------
RequestsSent == {w \in DOMAIN workers : workers[w].sent > 0}

C34_State ==
    /\ pc = "saving" =>
          /\ saved = "pending"
          /\ Len(payloads) = batchSizeOf(closure[1].controls)
          /\ payloads = lastPayloads
          /\ queue = <<>>
          /\ claimLog = <<>>
          /\ RequestsSent = {}
    /\ (RequestsSent # {} \/ claimLog # <<>> \/ queue # <<>>) =>
          saved \in SaveResults
    /\ InRun =>
          /\ payloads = lastPayloads
          /\ DOMAIN queue = DOMAIN payloads
          /\ \A i \in DOMAIN queue :
                queue[i] = buildLLMMessages(closure[1].sections,
                                            closure[1].instructions, payloads[i])

C34_Step ==
    /\ pc = "saving" =>
          (payloads' = payloads \/ (pc' = "saving" /\ saved' = "pending"))
    /\ (pc = "saving" /\ saved' \in SaveResults) =>
          (pc' = "dispatching" /\ payloads' = payloads /\ claimLog' # <<>>)
    /\ InRun => payloads' = payloads

C34_BuildSaveDispatch == [][C34_State /\ C34_State' /\ C34_Step]_vars

\* a run whose save the API refused has dispatched both payloads and
\* returned their outputs
C34_Witness ==
    /\ Finished
    /\ saved = "download"
    /\ Len(payloads) = 2
    /\ closure[1].sections # <<>>
    /\ \A i \in DOMAIN prompts : prompts[i] # <<>>
    /\ Len(prompts) = 2

\* ------------------------------------------------------------------------
\* C35: saving a title that is blank after trimming leaves the section list
\* as it was; saving any other title stores it trimmed on the sections with
\* the id of the edited one, and leaves their list, selections and flag,
\* and every other section, as they were
\* ------------------------------------------------------------------------
Renamed(section, title) ==
    [id |-> section.id, title |-> title, list |-> section.list,
     selections |-> section.selections, isRandomized |-> section.isRandomized]

C35_Step ==
    \A n \in DOMAIN sections, text \in TitleEdits :
      handleSave(n, text) =>
        IF trim(text) = <<>>
        THEN sections' = sections
        ELSE /\ DOMAIN sections' = DOMAIN sections
             /\ \A m \in DOMAIN sections :
                   sections'[m] = IF sections[m].id = sections[n].id
                                  THEN Renamed(sections[m], trim(text))
                                  ELSE sections[m]

C35_TitleChangeTouchesOneSection == [][C35_Step]_vars

\* of two sections the first has been given the title typed as " V ", the
\* second has been renamed as well and keeps its selections
C35_Witness ==
    /\ Len(sections) = 2
    /\ sections[1].id # sections[2].id
    /\ sections[1].title = <<"V">>
    /\ sections[2].title = <<"T">>
    /\ sections[2].selections # <<>>

\* ------------------------------------------------------------------------
\* Loading and removing.  getPreset resolves with the file or, when the file
\* is missing or the request fails, with null; loadDefaultPreset then asks
\* for default.json and falls back to DEFAULT_PRESET.
\* ------------------------------------------------------------------------
\* what getPreset resolves with when there is no file
null == [null |-> TRUE]

defaultId(n) == <<"d", "e", "f", "a", "u", "l", "t", "-", Digits[n]>>

\* DEFAULT_PRESET (the model field, which nothing reads, is left out; the
\* dash of the instructions is written as a hyphen)
DEFAULT_PRESET ==
    [instructions |->
        <<"Y", "o", "u", " ", "r", "e", "w", "r", "i", "t", "e", " ",
          "a", " ", "s", "t", "r", "u", "c", "t", "u", "r", "e", "d",
          " ", "s", "c", "e", "n", "e", " ", "s", "p", "e", "c", " ",
          "i", "n", "t", "o", " ", "O", "N", "E", " ", "c", "i", "n",
          "e", "m", "a", "t", "i", "c", " ", "p", "a", "r", "a", "g",
          "r", "a", "p", "h", " ", "(", "2", "-", "5", " ", "s", "e",
          "n", "t", "e", "n", "c", "e", "s", ")", " ", "f", "o", "r",
          " ", "a", "n", " ", "A", "I", " ", "i", "m", "a", "g", "e",
          " ", "g", "e", "n", "e", "r", "a", "t", "o", "r", ".">>,
     sections |-> <<
        [id |-> defaultId(1),
         title |-> <<"P", "r", "e">>,
         list |-> <<"S", "u", "b", "j", "e", "c", "t">>,
         selections |-> <<>>, isRandomized |-> TRUE],
        [id |-> defaultId(2),
         title |-> <<"C", "o", "m", "p", "o", "s", "i", "t", "i", "o",
                    "n">>,
         list |-> <<"w", "i", "d", "e", " ", "s", "h", "o", "t", ",", " ",
                   "m", "e", "d", "i", "u", "m", " ", "s", "h", "o", "t",
                   ",", " ", "c", "l", "o", "s", "e", "-", "u", "p">>,
         selections |-> <<>>, isRandomized |-> TRUE],
        [id |-> defaultId(3),
         title |-> <<"E", "n", "v", "i", "r", "o", "n", "m", "e", "n",
                    "t">>,
         list |-> <<"l", "o", "c", "a", "t", "i", "o", "n">>,
         selections |-> <<>>, isRandomized |-> TRUE],
        [id |-> defaultId(4),
         title |-> <<"T", "i", "m", "e", " ", "o", "f", " ", "D", "a",
                    "y">>,
         list |-> <<"d", "a", "y", ",", " ", "n", "i", "g", "h", "t">>,
         selections |-> <<>>, isRandomized |-> TRUE],
        [id |-> defaultId(5),
         title |-> <<"W", "e", "a", "t", "h", "e", "r", " ", "/", " ",
                    "A", "t", "m", "o", "s", "p", "h", "e", "r", "e">>,
         list |-> <<"c", "l", "e", "a", "r", ",", " ", "c", "l", "o", "u",
                   "d", "y">>,
         selections |-> <<>>, isRandomized |-> TRUE],
        [id |-> defaultId(6),
         title |-> <<"L", "i", "g", "h", "t", "i", "n", "g">>,
         list |-> <<"n", "a", "t", "u", "r", "a", "l", " ", "l", "i", "g",
                   "h", "t", ",", " ", "a", "r", "t", "i", "f", "i", "c",
                   "i", "a", "l", " ", "l", "i", "g", "h", "t">>,
         selections |-> <<>>, isRandomized |-> TRUE],
        [id |-> defaultId(7),
         title |-> <<"L", "e", "n", "s">>,
         list |-> <<"5", "0", "m", "m", " ", "f", "/", "1", ".", "8">>,
         selections |-> <<>>, isRandomized |-> TRUE],
        [id |-> defaultId(8),
         title |-> <<"P", "o", "s", "t">>,
         list |-> <<"s", "t", "a", "n", "d", "a", "r", "d", " ", "p", "r",
                   "o", "c", "e", "s", "s", "i", "n", "g">>,
         selections |-> <<>>, isRandomized |-> FALSE] >>,
     defaults |-> [seed |-> -1, batch |-> 1, concurrency |-> 4]]

\* a legacy preset: lists by key and no sections
LegacyFile ==
    [instructions |-> <<"i">>,
     defaults |-> <<>>,
     lists |-> << [k |-> <<"p", "r", "e">>, v |-> <<"o", "n", "e">>] >>]

\* a modern preset whose first section carries the id that the second one,
\* which has none, is given by its position
TwinFile ==
    [instructions |-> <<"i">>,
     defaults |-> <<>>,
     sections |-> <<
        [id |-> <<"s", "e", "c", "t", "i", "o", "n", "-", "2">>,
         title |-> <<"T">>, list |-> <<"x">>],
        [title |-> <<"U">>, list |-> <<"y">>] >>]

\* what getPreset(presetName) and getPreset("default") can resolve with
ServedFiles == {PresetFiles.cycle, PresetFiles.mixed, LegacyFile, TwinFile, null}
DefaultFiles == {PresetFiles.cycle, null}

\* loadDefaultPreset(), getPreset("default") having resolved with defaultFile
loadDefaultPreset(defaultFile) ==
    IF defaultFile # null THEN defaultFile ELSE DEFAULT_PRESET

\* the preset load effect, getPreset(name) having resolved with preset
presetLoaded(name, preset, defaultFile) ==
    /\ name \in loads
    /\ loads' = loads \ {name}
    /\ UNCHANGED presetName
    /\ LET presetData == IF preset # null THEN preset
                         ELSE loadDefaultPreset(defaultFile)
           defaults == fieldOr(presetData, "defaults", <<>>)
       IN  /\ instructions' = fieldOr(presetData, "instructions", <<>>)
           /\ sections' = boxEditorEffect(resolvePresetSections(presetData))
           /\ controls' =
                 [seed |-> defaultOr(defaults, "seed", -1),
                  batch |-> defaultOr(defaults, "batch", 1),
                  concurrency |-> defaultOr(defaults, "concurrency",
                                            DefaultConcurrency)]
    /\ UNCHANGED <<pickerVars, fnVars, closure, saved,
                   apiKey, prompts, busy, error, warn, lastPayloads, progress, pc,
                   runVars>>

\* the remove button of section n, rendered while sections.length > 1:
\* handleRemoveSection(section.id) keeps the sections with another id
handleRemoveSection(n) ==
    /\ n \in DOMAIN sections
    /\ Len(sections) > 1
    /\ sections' = boxEditorEffect(
           SelectSeq(sections, LAMBDA section : section.id # sections[n].id))
    /\ UNCHANGED <<pickerVars, fnVars, loadVars, closure, saved,
                   apiKey, controls, instructions, prompts, busy,
                   error, warn, lastPayloads, progress, pc, runVars>>

RemoveInit ==
    /\ Init
    /\ apiKey = ""
    /\ controls.batch = 1
    /\ controls.concurrency = 0
    /\ prompts = <<>>

RemoveNext ==
    \/ \E name \in loads, preset \in ServedFiles, defaultFile \in DefaultFiles :
          presetLoaded(name, preset, defaultFile)
    \/ \E n \in DOMAIN sections : handleRemoveSection(n)

RemoveSpec == RemoveInit /\ [][RemoveNext]_vars

\* ------------------------------------------------------------------------
\* C36: once the preset load has completed the section list is never empty:
\* every load yields at least one section and a section can be removed only
\* while more than one exists
\* ------------------------------------------------------------------------
C36_SectionsNeverEmptyAfterLoad == loads = {} => sections # <<>>

\* ------------------------------------------------------------------------
\* Reordering.  moveSectionUp and moveSectionDown look the section up by id
\* in the sections of the last render and store a copy with two entries
\* exchanged.
\* ------------------------------------------------------------------------
\* what reading an index outside an array gives
undefinedSection == [undefined |-> TRUE]

\* sections.findIndex(s => s.id === sectionId): 0-based, -1 when none
findIndex(secs, sectionId) ==
    LET hits == {n \in DOMAIN secs : secs[n].id = sectionId}
    IN  IF hits = {} THEN -1
        ELSE (CHOOSE n \in hits : \A m \in hits : n <= m) - 1

\* newSections[i] for a 0-based index
sectionAt(arr, i) ==
    IF i >= 0 /\ i < Len(arr) THEN arr[i + 1] ELSE undefinedSection

\* arr with arr[i] = value done on it: an index below 0 sets a property
\* that is no element of the array
assignAt(arr, i, value) ==
    IF i >= 0 /\ i < Len(arr) THEN [arr EXCEPT ![i + 1] = value] ELSE arr

\* [newSections[a], newSections[b]] = [newSections[b], newSections[a]]
exchange(arr, a, b) ==
    assignAt(assignAt(arr, a, sectionAt(arr, b)), b, sectionAt(arr, a))

\* an item of the rendered list is undefined: renderSection throws
renderFails == \E n \in DOMAIN sections : sections[n] = undefinedSection

\* moveSectionUp(sectionId)
moveSectionUp(sectionId) ==
    /\ ~renderFails
    /\ LET currentIndex == findIndex(sections, sectionId)
       IN  sections' = IF currentIndex > 0
                       THEN exchange(sections, currentIndex - 1, currentIndex)
                       ELSE sections
    /\ UNCHANGED <<pickerVars, fnVars, loadVars, closure, saved,
                   apiKey, controls, instructions, prompts, busy,
                   error, warn, lastPayloads, progress, pc, runVars>>

\* moveSectionDown(sectionId)
moveSectionDown(sectionId) ==
    /\ ~renderFails
    /\ LET currentIndex == findIndex(sections, sectionId)
       IN  sections' = IF currentIndex < Len(sections) - 1
                       THEN exchange(sections, currentIndex, currentIndex + 1)
                       ELSE sections
    /\ UNCHANGED <<pickerVars, fnVars, loadVars, closure, saved,
                   apiKey, controls, instructions, prompts, busy,
                   error, warn, lastPayloads, progress, pc, runVars>>

\* the ids the two functions are called with: those of the sections and
\* one that no section has
AbsentId == <<"n", "o", "n", "e">>
MoveIds ==
    {sections[n].id :
        n \in {m \in DOMAIN sections : sections[m] # undefinedSection}}
    \cup {AbsentId}

MoveFiles == {PresetFiles.cycle, PresetFiles.mixed, TwinFile}

MoveNext ==
    \/ \E name \in loads, preset \in MoveFiles, defaultFile \in DefaultFiles :
          presetLoaded(name, preset, defaultFile)
    \/ /\ ~renderFails
       /\ Len(sections) <= MaxSections
       /\ \E id \in NewIds : handleAddSection(id)
    \/ ~renderFails /\ \E n \in DOMAIN sections : handleRemoveSection(n)
    \/ \E sectionId \in MoveIds : moveSectionUp(sectionId)
    \/ \E sectionId \in MoveIds : moveSectionDown(sectionId)

MoveSpec == RemoveInit /\ [][MoveNext]_vars

\* ------------------------------------------------------------------------
\* C37: moveSectionUp and moveSectionDown, for any section id, leave a
\* permutation of the section list: the section with that id is exchanged
\* with its neighbour in that direction when it has one, and the list is
\* unchanged otherwise (first section up, last section down, an id that no
\* section has)
\* ------------------------------------------------------------------------
\* the lists the claim allows after a move of sectionId by step (-1 up,
\* 1 down)
Allowed(secs, sectionId, step) ==
    LET holders == {n \in DOMAIN secs : secs[n].id = sectionId}
        movable == {n \in holders : n + step \in DOMAIN secs}
    IN  {[secs EXCEPT ![n] = secs[n + step], ![n + step] = secs[n]] :
            n \in movable}
        \cup (IF movable = holders THEN {} ELSE {secs})
        \cup (IF holders = {} THEN {secs} ELSE {})

C37_Step ==
    \A sectionId \in MoveIds :
      /\ moveSectionUp(sectionId) =>
            sections' \in Allowed(sections, sectionId, -1)
      /\ moveSectionDown(sectionId) =>
            sections' \in Allowed(sections, sectionId, 1)

RECURSIVE mulberryAt(_, _)
mulberryAt(t0, k) ==
    IF k <= 1 THEN mulberry32(t0)
    ELSE mulberryAt(add32(t0, <<WeylHi, WeylLo>>), k - 1)

\* Math.floor(rng() * n) at the k-th call of the rng of makeBalancedPlan:
\* Math.random, returning rnds[k] / RandomDen, under seedBase -1, else the
\* generator of (Number(seedBase) || 0) + hash32(sectionId)
planRng(seedBase, sectionId, rnds, k, n) ==
    IF usesMathRandom(seedBase)
    THEN (rnds[k] * n) \div RandomDen
    ELSE scale(mulberryAt(addInt(hash32(sectionId), seedBase), k), n)

\* mutant of swap: order[i] = order[j] alone
swap_copies(order, i, j) == [order EXCEPT ![i + 1] = order[j + 1]]

\* [order[i], order[j]] = [order[j], order[i]], 0-based
swap(order, i, j) ==
    [order EXCEPT ![i + 1] = order[j + 1], ![j + 1] = order[i + 1]]

\* the Fisher-Yates loop from index i down to 1; the call of the rng at
\* index i is call number order.length - i
RECURSIVE shuffle(_, _, _, _, _)
shuffle(order, i, seedBase, sectionId, rnds) ==
    IF i <= 0 THEN order
    ELSE LET j == planRng(seedBase, sectionId, rnds, Len(order) - i, i + 1)
         IN  shuffle(swap(order, i, j), i - 1, seedBase, sectionId, rnds)

\* makeBalancedPlan(pool, seedBase, sectionId, batchSize)
makeBalancedPlan(pool, seedBase, sectionId, batchSize, rnds) ==
    LET candidates == getCandidates(pool)
    IN  IF Len(candidates) = 0 THEN [b \in 1..batchSize |-> <<>>]
        ELSE IF Len(candidates) = 1
        THEN [b \in 1..batchSize |-> candidates[1]]
        ELSE LET order == IF pool.isRandomized
                          THEN shuffle(candidates, Len(candidates) - 1,
                                       seedBase, sectionId, rnds)
                          ELSE candidates
             IN  [b \in 1..batchSize |-> at(order, (b - 1) % Len(order))]

\* the values Math.random can return during one shuffle of the pool
ShuffleDraws(pool) ==
    [1..(Len(getCandidates(pool)) - 1) -> 0..(RandomDen - 1)]

\* picks = makeBalancedPlan(pool, seedBase, pool.label, batchSize)
plan(batchSize, rnds) ==
    /\ resolved = <<>>
    /\ resolved' = <<getCandidates(poolIn)>>
    /\ picks' = makeBalancedPlan(poolIn, seedIn, poolIn.label, batchSize, rnds)
    /\ UNCHANGED <<appVars, fnVars, loadVars, closure, saved, poolIn, seedIn,
                   replay>>

BalancedNext ==
    \E batchSize \in 0..MaxPicks, rnds \in ShuffleDraws(poolIn) :
        plan(batchSize, rnds)

BalancedSpec == PickerInit /\ [][BalancedNext]_vars

\* ------------------------------------------------------------------------
\* C38: makeBalancedPlan returns batchSize picks, all "" when there is no
\* candidate; otherwise pick b is order[b mod N] for one order that is a
\* permutation of the N candidates (the candidates themselves when the pool
\* is not randomized), so every candidate appears floor(batchSize / N) or
\* ceil(batchSize / N) times
\* ------------------------------------------------------------------------
\* the orders of the candidates: each of them once
Orders(candidates) ==
    {order \in [DOMAIN candidates -> Range(candidates)] :
        \A c \in Range(candidates) :
           \E n \in DOMAIN order : order[n] = c}

Balanced(plan_, candidates, randomized, batchSize) ==
    LET N == Len(candidates)
    IN  /\ Len(plan_) = batchSize
        /\ N = 0 => \A b \in 1..batchSize : plan_[b] = <<>>
        /\ N > 0 =>
             /\ \E order \in Orders(candidates) :
                   /\ ~randomized => order = candidates
                   /\ \A b \in 1..batchSize :
                         plan_[b] = order[((b - 1) % N) + 1]
             /\ \A c \in Range(candidates) :
                   Cardinality({b \in 1..batchSize : plan_[b] = c})
                      \in {batchSize \div N, (batchSize + N - 1) \div N}

C38_Step ==
    \A batchSize \in 0..MaxPicks, rnds \in ShuffleDraws(poolIn) :
       plan(batchSize, rnds) =>
          Balanced(picks', getCandidates(poolIn), poolIn.isRandomized,
                   batchSize)

C38_PlanCyclesThroughAPermutation == [][C38_Step]_vars

\* a randomized pool of three candidates planned under a seed for five
\* picks: the order is not that of the candidates, and the fourth pick is
\* the first again
C38_Witness ==
    /\ resolved # <<>>
    /\ poolIn.isRandomized
    /\ seedIn # -1
    /\ Len(resolved[1]) = 3
    /\ Len(picks) = 5
    /\ SubSeq(picks, 1, 3) # resolved[1]
    /\ Range(SubSeq(picks, 1, 3)) = Range(resolved[1])
    /\ picks[4] = picks[1]
    /\ picks[5] = picks[2]

====
